---- MODULE Spec2Model ----
(***************************************************************************)
(* pubsub-store: a Store that serves count/create/find/update requests     *)
(* arriving over a subject-addressed bus, and the Provider's request       *)
(* executor that sends such requests and settles a future on the reply.    *)
(*                                                                         *)
(* JavaScript values are tagged records; a JavaScript string is a sequence *)
(* of lexical tokens, so that JSON.stringify and JSON.parse are computed   *)
(* (a serializer and a recursive-descent parser) and not assumed.          *)
(***************************************************************************)
EXTENDS Integers, Sequences, FiniteSets, TLC

(***************************************************************************)
(* Bounds of the model.                                                    *)
(***************************************************************************)
MaxLifecycleCalls == 10
MaxServingCalls == 2
MaxDeliveries == 1
MaxCalls == 2
MaxBatchSize == 2
MaxLimit == 5
MaxPageLen == 3
MaxDocs == 3
MaxChunks == 6
MaxReplies == 2
MaxRegistrations == 2

(***************************************************************************)
(* JavaScript values.                                                      *)
(***************************************************************************)
Undefined == [t |-> "undefined"]
Null == [t |-> "null"]
Bool(b) == [t |-> "boolean", v |-> b]
Num(n) == [t |-> "number", v |-> n]
Str(s) == [t |-> "string", v |-> s]
Arr(s) == [t |-> "array", v |-> s]
Obj(s) == [t |-> "object", v |-> s]
Buf == [t |-> "buffer"]

\* tokens of a string: punctuation and literals of JSON, a number, a quoted
\* string and a run of plain characters
P(c) == [k |-> "punct", c |-> c]
N(n) == [k |-> "num", n |-> n]
Q(s) == [k |-> "quoted", s |-> s]
W(w) == [k |-> "word", w |-> w]

Word(w) == Str(<<W(w)>>)
Key(w) == <<W(w)>>
KV(w, v) == [k |-> Key(w), v |-> v]

isNil(x) == x.t \in {"undefined", "null"}
isString(x) == x.t = "string"
isError(x) == x.t = "Error"

\* String(x), for the values an error message is built from
String(x) ==
  CASE x.t = "string" -> x
    [] x.t = "number" -> Str(<<N(x.v)>>)
    [] x.t = "null" -> Word("null")
    [] x.t = "boolean" -> Word(IF x.v THEN "true" ELSE "false")
    [] x.t = "object" -> Word("[object Object]")

\* new Error(message): an absent message is the empty string
Error(m) ==
  [t |-> "Error", name |-> "Error",
   message |-> IF m.t = "undefined" THEN Str(<<>>) ELSE String(m)]
TypeError(w) == [t |-> "Error", name |-> "TypeError", message |-> Word(w)]
SyntaxError(w) == [t |-> "Error", name |-> "SyntaxError", message |-> Word(w)]

(***************************************************************************)
(* JSON.stringify: undefined has no text; an object drops its members      *)
(* whose value is undefined; an array writes them as null; an Error has no *)
(* enumerable member but those assigned to it.                             *)
(***************************************************************************)
RECURSIVE Tokens(_)
RECURSIVE JoinElements(_)
RECURSIVE JoinMembers(_)

JoinElements(s) ==
  IF s = <<>> THEN <<>>
  ELSE (IF Head(s).t = "undefined" THEN <<P("null")>> ELSE Tokens(Head(s)))
       \o (IF Len(s) > 1 THEN <<P(",")>> \o JoinElements(Tail(s)) ELSE <<>>)

JoinMembers(s) ==
  IF s = <<>> THEN <<>>
  ELSE <<Q(Head(s).k), P(":")>> \o Tokens(Head(s).v)
       \o (IF Len(s) > 1 THEN <<P(",")>> \o JoinMembers(Tail(s)) ELSE <<>>)

Defined(m) == m.v.t # "undefined"

Tokens(x) ==
  CASE x.t = "null" -> <<P("null")>>
    [] x.t = "boolean" -> <<P(IF x.v THEN "true" ELSE "false")>>
    [] x.t = "number" -> <<N(x.v)>>
    [] x.t = "string" -> <<Q(x.v)>>
    [] x.t = "array" -> <<P("[")>> \o JoinElements(x.v) \o <<P("]")>>
    [] x.t = "object" ->
         <<P("{")>> \o JoinMembers(SelectSeq(x.v, Defined)) \o <<P("}")>>
    [] x.t = "Error" ->
         IF "query" \in DOMAIN x /\ x.query.t # "undefined"
         THEN <<P("{"), Q(Key("query")), P(":")>> \o Tokens(x.query) \o <<P("}")>>
         ELSE <<P("{"), P("}")>>

JSONstringify(x) == IF x.t = "undefined" THEN Undefined ELSE Str(Tokens(x))

(***************************************************************************)
(* JSON.parse, by recursive descent over the tokens.  The result is        *)
(* [ok, val, rest]; the text is valid when ok and nothing is left.         *)
(***************************************************************************)
RECURSIVE ParseValue(_)
RECURSIVE ParseElements(_, _)
RECURSIVE ParseMembers(_, _)

Fail == [ok |-> FALSE]
Parsed(v, r) == [ok |-> TRUE, val |-> v, rest |-> r]

\* a member assigned twice keeps its place and takes the last value
Put(members, k, v) ==
  IF \E i \in 1..Len(members) : members[i].k = k
  THEN [i \in 1..Len(members) |->
          IF members[i].k = k THEN [k |-> k, v |-> v] ELSE members[i]]
  ELSE Append(members, [k |-> k, v |-> v])

IsPunct(tok, c) == tok.k = "punct" /\ tok.c = c

ParseElements(toks, acc) ==
  LET e == ParseValue(toks) IN
  IF ~e.ok \/ e.rest = <<>> THEN Fail
  ELSE IF IsPunct(Head(e.rest), ",")
       THEN ParseElements(Tail(e.rest), Append(acc, e.val))
  ELSE IF IsPunct(Head(e.rest), "]")
       THEN Parsed(Arr(Append(acc, e.val)), Tail(e.rest))
  ELSE Fail

ParseMembers(toks, acc) ==
  IF Len(toks) < 3 \/ toks[1].k # "quoted" \/ ~IsPunct(toks[2], ":") THEN Fail
  ELSE LET m == ParseValue(SubSeq(toks, 3, Len(toks))) IN
       IF ~m.ok \/ m.rest = <<>> THEN Fail
       ELSE IF IsPunct(Head(m.rest), ",")
            THEN ParseMembers(Tail(m.rest), Put(acc, toks[1].s, m.val))
       ELSE IF IsPunct(Head(m.rest), "}")
            THEN Parsed(Obj(Put(acc, toks[1].s, m.val)), Tail(m.rest))
       ELSE Fail

ParseValue(toks) ==
  IF toks = <<>> THEN Fail
  ELSE LET h == Head(toks)
           r == Tail(toks)
       IN CASE h.k = "num" -> Parsed(Num(h.n), r)
            [] h.k = "quoted" -> Parsed(Str(h.s), r)
            [] h.k = "word" -> Fail
            [] h.k = "punct" ->
                 CASE h.c = "null" -> Parsed(Null, r)
                   [] h.c = "true" -> Parsed(Bool(TRUE), r)
                   [] h.c = "false" -> Parsed(Bool(FALSE), r)
                   [] h.c = "[" ->
                        IF r # <<>> /\ IsPunct(Head(r), "]")
                        THEN Parsed(Arr(<<>>), Tail(r))
                        ELSE ParseElements(r, <<>>)
                   [] h.c = "{" ->
                        IF r # <<>> /\ IsPunct(Head(r), "}")
                        THEN Parsed(Obj(<<>>), Tail(r))
                        ELSE ParseMembers(r, <<>>)
                   [] OTHER -> Fail

\* tryCatch(JSON.parse, identity): the value, or the SyntaxError itself
JSONparse(s) ==
  LET p == ParseValue(s.v) IN
  IF p.ok /\ p.rest = <<>> THEN p.val ELSE SyntaxError("Unexpected token")

(***************************************************************************)
(* Ramda helpers used by the Store and the Provider.                       *)
(***************************************************************************)
has(w, x) == x.t = "object" /\ \E i \in 1..Len(x.v) : x.v[i].k = Key(w)

\* prop(w)(x) for a non-nil x (on nil it throws or yields undefined,
\* depending on the Ramda release): the own member, the message of an
\* Error, undefined otherwise
prop(w, x) ==
  IF has(w, x)
  THEN x.v[CHOOSE i \in 1..Len(x.v) : x.v[i].k = Key(w)].v
  ELSE IF x.t = "Error" /\ w \in DOMAIN x THEN x[w]
  ELSE Undefined

propOr(d, w, x) == IF has(w, x) THEN prop(w, x) ELSE d

objOf(w, x) == Obj(<<KV(w, x)>>)

\* merge(a, b): the members of a, overwritten and followed by those of b
RECURSIVE PutAll(_, _)
PutAll(members, more) ==
  IF more = <<>> THEN members
  ELSE PutAll(Put(members, Head(more).k, Head(more).v), Tail(more))

merge(a, b) == Obj(PutAll(a.v, b.v))

\* the outcome of a computation that may throw
Returns(v) == [threw |-> FALSE, val |-> v]
Throws(e) == [threw |-> TRUE, val |-> e]

\* pick(names)(x): `name in x` throws on a primitive and on nil
pick(names, x) ==
  IF x.t \notin {"object", "array", "Error"}
  THEN Throws(TypeError("Cannot use 'in' operator"))
  ELSE Returns(Obj(SelectSeq([i \in 1..Len(names) |-> KV(names[i], prop(names[i], x))],
                             Defined)))

\* pickAll(keys)(x): x[key] throws on nil as soon as there is a key
pickAll(keys, x) ==
  IF keys = <<>> THEN Returns(Obj(<<>>))
  ELSE IF isNil(x) THEN Throws(TypeError("Cannot read property of nil"))
  ELSE Returns(Obj([i \in 1..Len(keys) |->
                      [k |-> keys[i],
                       v |-> IF x.t = "object" /\ \E j \in 1..Len(x.v) : x.v[j].k = keys[i]
                             THEN x.v[CHOOSE j \in 1..Len(x.v) : x.v[j].k = keys[i]].v
                             ELSE Undefined]]))

EqualsOne(m) == m.v = Num(1)

\* keys(pickBy(equals(1))(projection)); only an object has enumerable
\* members that can equal 1
SelectedKeys(projection) ==
  IF projection.t = "object"
  THEN LET sel == SelectSeq(projection.v, EqualsOne)
       IN [i \in 1..Len(sel) |-> sel[i].k]
  ELSE <<>>

(***************************************************************************)
(* Subjects.                                                               *)
(***************************************************************************)
Groups == <<"count", "create", "find", "update">>

Prefixes == [count |-> "count", create |-> "create", find |-> "find", update |-> "update"]

SchemaNames == {"Schema", "schema", "SCHEMA"}

\* String.prototype.toLowerCase on the schema names of the model
toLowerCase(name) ==
  CASE name = "Schema" -> "schema"
    [] name = "SCHEMA" -> "schema"
    [] name = "schema" -> "schema"

\* subjects built from the name as it is written
getSubjects_asWritten(name, prefixes, suffix) ==
  LET _suffix == IF suffix # "" THEN <<suffix>> ELSE <<>>
  IN [g \in {"count", "create", "find", "update"} |->
        << <<prefixes[g], name>> \o _suffix,
           <<prefixes[g], name>> \o _suffix \o <<">">> >>]

\* a subject is its sequence of dot-separated segments
getSubjects(name, prefixes, suffix) ==
  LET _name == toLowerCase(name)
      _suffix == IF suffix # "" THEN <<suffix>> ELSE <<>>
  IN [g \in {"count", "create", "find", "update"} |->
        << <<prefixes[g], _name>> \o _suffix,
           <<prefixes[g], _name>> \o _suffix \o <<">">> >>]

goodSchema == [name |-> "Schema", fields |-> Obj(<<>>)]

StoreEvents ==
  [count |-> "count-error", create |-> "create-error",
   find |-> "find-error", update |-> "update-error"]

updateOptionsBase == Obj(<<KV("multi", Bool(TRUE))>>)

(***************************************************************************)
(* State.                                                                  *)
(***************************************************************************)
VARIABLES
  sids,            \* Store._sids
  nextSid,         \* transport: the next subscription ID it hands out
  busSubs,         \* transport: the live subscriptions [sid, subject, handler]
  lifecycleCalls,  \* number of open() and close() calls made so far
  lastCall,        \* the last open()/close(): [op, threw, calls]
  opened,          \* whether the last call that succeeded was an open()
  handlers,        \* the invocations of the Store's handlers, in order
  calls,           \* the Provider's exec calls, in order
  batch,           \* a run of batchExec: its loop variables and page requests
  provider,        \* the Provider: what its constructor derived from its arguments
  operation,       \* the public operation of the Provider that is being followed
  db,              \* the collection behind the Store's Model: [docs, marked]
  stream,          \* the Provider as a Writable: its buffer and what it sent
  emitter          \* the Provider as an EventEmitter and a Readable

storeVars == <<sids, nextSid, busSubs, lifecycleCalls, lastCall, opened, handlers>>
providerVars == <<batch, provider, operation, db, stream, emitter>>
vars == <<sids, nextSid, busSubs, lifecycleCalls, lastCall, opened, handlers, calls,
          batch, provider, operation, db, stream, emitter>>

(***************************************************************************)
(* Store: the per-request handler.                                         *)
(***************************************************************************)
buildError(e) ==
  LET picked == pick(<<"message">>, e)
  IN IF picked.threw THEN picked ELSE Returns(objOf("error", picked.val))

buildResult(v) == objOf("result", v)

\* the arguments each handler extracts from the parsed request
onCount(q) == <<propOr(Obj(<<>>), "conditions", q)>>
onCreate(q) == <<prop("object", q)>>
onFind(q) ==
  <<propOr(Obj(<<>>), "conditions", q), prop("projection", q), prop("options", q)>>
\* an update handler that lets the options of the request through
onUpdate_options(q) ==
  <<prop("conditions", q), prop("object", q),
    merge(merge(updateOptionsBase, objOf("select", prop("projection", q))),
          propOr(Obj(<<>>), "options", q))>>

onUpdate(q) ==
  <<prop("conditions", q), prop("object", q),
    merge(updateOptionsBase, objOf("select", prop("projection", q)))>>

process(group, q) ==
  CASE group = "count" -> onCount(q)
    [] group = "create" -> onCreate(q)
    [] group = "find" -> onFind(q)
    [] group = "update" -> onUpdate(q)

\* a create handler that forgets the projection
project_none(q, created) == Returns(created)

\* _onCreate applies the projection itself to what the model created
project(q, created) ==
  LET projection == prop("projection", q)
  IN IF isNil(projection) THEN Returns(created)
     ELSE pickAll(SelectedKeys(projection), created)

NoOutcome == [kind |-> "none"]

Invocation(group, msg, replyTo) ==
  [group |-> group, msg |-> msg, replyTo |-> replyTo,
   state |-> "awaiting", error |-> Undefined, settled |-> NoOutcome,
   modelCalls |-> <<>>, emitted |-> <<>>, published |-> <<>>]

\* exec(emit, publish, process)(msg, replyTo), up to the model's promise
Store_exec(group, msg, replyTo) ==
  LET inv == Invocation(group, msg, replyTo)
      q == JSONparse(msg)
  IN IF ~isString(msg)
     THEN [inv EXCEPT !.state = "rejected",
                      !.error = Error(Word("msg must be a string"))]
     ELSE IF ~isString(replyTo)
     THEN [inv EXCEPT !.state = "rejected",
                      !.error = Error(Word("replyTo must be a string"))]
     ELSE IF isError(q)
     THEN \* emit the parse error, then publish buildError(error) as it is
          [inv EXCEPT !.state = "resolved",
                      !.emitted = <<[event |-> StoreEvents[group], args |-> <<q>>]>>,
                      !.published = <<[subject |-> replyTo, msg |-> buildError(q).val]>>]
     ELSE [inv EXCEPT !.modelCalls = <<[method |-> group, args |-> process(group, q)]>>]

\* the rest of the promise chain, once the model has settled
Store_settle(inv, outcome) ==
  LET q == JSONparse(inv.msg)
      \* the promise `process` returned
      processed ==
        IF outcome.kind = "reject" THEN Throws(outcome.v)
        ELSE IF inv.group = "create" THEN project(q, outcome.v)
        ELSE Returns(outcome.v)
      \* thenP2(buildResult, buildError)
      envelope ==
        IF processed.threw THEN buildError(processed.val)
        ELSE Returns(buildResult(processed.val))
  IN IF envelope.threw
     THEN [inv EXCEPT !.state = "failed", !.error = envelope.val, !.settled = outcome]
     ELSE [inv EXCEPT !.state = "resolved", !.settled = outcome,
                      !.published = <<[subject |-> inv.replyTo,
                                       msg |-> JSONstringify(envelope.val)]>>]

(***************************************************************************)
(* Store: open() and close().                                              *)
(***************************************************************************)
HandlerOf == [count |-> "_onCount", create |-> "_onCreate",
              find |-> "_onFind", update |-> "_onUpdate"]
GroupOf == [_onCount |-> "count", _onCreate |-> "create",
            _onFind |-> "find", _onUpdate |-> "update"]

storeSubjects == getSubjects(goodSchema.name, Prefixes, "")

\* this._subjects[g].map(sub => this._subscribe(sub, handler)), the
\* transport numbering its subscriptions from `first`
RECURSIVE SubscribeAll(_, _)
SubscribeAll(groups, first) ==
  IF groups = <<>> THEN <<>>
  ELSE LET g == Head(groups)
           subs == storeSubjects[g]
       IN [i \in 1..Len(subs) |->
             [fn |-> "subscribe", subject |-> subs[i],
              handler |-> HandlerOf[g], sid |-> first + i - 1]]
          \o SubscribeAll(Tail(groups), first + Len(subs))

Thrown(op) == [op |-> op, threw |-> TRUE, calls |-> <<>>]

\* an open() that does not check that the store is closed
open_unguarded ==
  /\ lifecycleCalls < MaxLifecycleCalls
  /\ lifecycleCalls' = lifecycleCalls + 1
  /\ LET made == SubscribeAll(Groups, nextSid)
     IN /\ sids' = sids \o [i \in 1..Len(made) |-> made[i].sid]
        /\ nextSid' = nextSid + Len(made)
        /\ busSubs' = busSubs \cup
             {[sid |-> made[i].sid, subject |-> made[i].subject,
               handler |-> made[i].handler] : i \in 1..Len(made)}
        /\ lastCall' = [op |-> "open", threw |-> FALSE, calls |-> made]
        /\ opened' = TRUE
  /\ UNCHANGED <<handlers, calls, providerVars>>

open ==
  /\ lifecycleCalls < MaxLifecycleCalls
  /\ lifecycleCalls' = lifecycleCalls + 1
  /\ IF sids # <<>>
     THEN \* deepStrictEqual(this._sids, []) throws
          /\ lastCall' = Thrown("open")
          /\ UNCHANGED <<sids, nextSid, busSubs, opened>>
     ELSE LET made == SubscribeAll(Groups, nextSid)
          IN /\ sids' = sids \o [i \in 1..Len(made) |-> made[i].sid]
             /\ nextSid' = nextSid + Len(made)
             /\ busSubs' = busSubs \cup
                  {[sid |-> made[i].sid, subject |-> made[i].subject,
                    handler |-> made[i].handler] : i \in 1..Len(made)}
             /\ lastCall' = [op |-> "open", threw |-> FALSE, calls |-> made]
             /\ opened' = TRUE
  /\ UNCHANGED <<handlers, calls, providerVars>>

\* a close() that walks the recorded IDs from the last to the first
close_reversed ==
  /\ lifecycleCalls < MaxLifecycleCalls
  /\ lifecycleCalls' = lifecycleCalls + 1
  /\ IF sids = <<>>
     THEN /\ lastCall' = Thrown("close")
          /\ UNCHANGED <<sids, nextSid, busSubs, opened>>
     ELSE /\ lastCall' =
               [op |-> "close", threw |-> FALSE,
                calls |-> [i \in 1..Len(sids) |->
                             [fn |-> "unsubscribe",
                              args |-> <<sids[Len(sids) + 1 - i], i - 1, sids>>]]]
          /\ busSubs' = {b \in busSubs : \A i \in 1..Len(sids) : b.sid # sids[i]}
          /\ sids' = <<>>
          /\ opened' = FALSE
          /\ UNCHANGED nextSid
  /\ UNCHANGED <<handlers, calls, providerVars>>

\* a close() that unsubscribes and leaves this._sids as it was
close_listKept ==
  /\ lifecycleCalls < MaxLifecycleCalls
  /\ lifecycleCalls' = lifecycleCalls + 1
  /\ IF sids = <<>>
     THEN /\ lastCall' = Thrown("close")
          /\ UNCHANGED <<sids, nextSid, busSubs, opened>>
     ELSE /\ lastCall' =
               [op |-> "close", threw |-> FALSE,
                calls |-> [i \in 1..Len(sids) |->
                             [fn |-> "unsubscribe", args |-> <<sids[i], i - 1, sids>>]]]
          /\ busSubs' = {b \in busSubs : \A i \in 1..Len(sids) : b.sid # sids[i]}
          /\ opened' = FALSE
          /\ UNCHANGED <<sids, nextSid>>
  /\ UNCHANGED <<handlers, calls, providerVars>>

\* this._sids.map(this._unsubscribe): map passes (element, index, array)
close ==
  /\ lifecycleCalls < MaxLifecycleCalls
  /\ lifecycleCalls' = lifecycleCalls + 1
  /\ IF sids = <<>>
     THEN \* notDeepStrictEqual(this._sids, []) throws
          /\ lastCall' = Thrown("close")
          /\ UNCHANGED <<sids, nextSid, busSubs, opened>>
     ELSE /\ lastCall' =
               [op |-> "close", threw |-> FALSE,
                calls |-> [i \in 1..Len(sids) |->
                             [fn |-> "unsubscribe", args |-> <<sids[i], i - 1, sids>>]]]
          /\ busSubs' = {b \in busSubs : \A i \in 1..Len(sids) : b.sid # sids[i]}
          /\ sids' = <<>>
          /\ opened' = FALSE
          /\ UNCHANGED nextSid
  /\ UNCHANGED <<handlers, calls, providerVars>>

(***************************************************************************)
(* Store: a message reaches a handler; the model settles.                  *)
(***************************************************************************)
createRequest ==
  Obj(<<KV("object", Obj(<<KV("a", Num(1)), KV("b", Num(2))>>)),
        KV("projection", Obj(<<KV("a", Num(1))>>))>>)

updateRequest ==
  Obj(<<KV("conditions", Obj(<<KV("id", Num(1))>>)),
        KV("object", Obj(<<KV("a", Num(1))>>)),
        KV("projection", Obj(<<KV("a", Num(0)), KV("b", Num(1))>>)),
        KV("options", Obj(<<KV("multi", Bool(FALSE))>>))>>)

\* what the transport may hand to a handler as the message
Payloads ==
  {Buf, Str(<<P("{")>>), JSONstringify(Obj(<<>>)), JSONstringify(Num(7)),
   JSONstringify(createRequest), JSONstringify(updateRequest)}

\* and as the reply subject: none, or an inbox
ReplyTos == {Undefined, Word("r")}

ModelResults == {Undefined, Num(7), Obj(<<KV("a", Num(1)), KV("b", Num(2))>>)}
ModelRejections == {Error(Word("msg")), Obj(<<KV("code", Num(1))>>), Undefined}

ModelOutcomes ==
  {[kind |-> "resolve", v |-> v] : v \in ModelResults} \cup
  {[kind |-> "reject", v |-> v] : v \in ModelRejections}

\* the transport calls the handler of a live subscription
Deliver(handler, msg, replyTo) ==
  /\ \E sub \in busSubs : sub.handler = handler
  /\ Len(handlers) < MaxDeliveries
  /\ handlers' = Append(handlers, Store_exec(GroupOf[handler], msg, replyTo))
  /\ UNCHANGED <<sids, nextSid, busSubs, lifecycleCalls, lastCall, opened, calls, providerVars>>

ModelSettle(h, outcome) ==
  /\ h \in 1..Len(handlers)
  /\ handlers[h].state = "awaiting"
  /\ handlers' = [handlers EXCEPT ![h] = Store_settle(handlers[h], outcome)]
  /\ UNCHANGED <<sids, nextSid, busSubs, lifecycleCalls, lastCall, opened, calls, providerVars>>

(***************************************************************************)
(* Provider: the request executor.                                         *)
(***************************************************************************)
ProviderError(message, query) ==
  [t |-> "Error", name |-> "Error", message |-> message, query |-> query]

\* `query timeout after ${timeout}ms`
TimeoutMessage(timeout) == Str(<<W("query timeout after "), N(timeout), W("ms")>>)

Pending == [state |-> "pending", value |-> Undefined]

\* resolve and reject settle a future that is still pending, and only that
resolve(future, v) ==
  IF future.state = "pending" THEN [state |-> "resolved", value |-> v] ELSE future
reject(future, e) ==
  IF future.state = "pending" THEN [state |-> "rejected", value |-> e] ELSE future

clearTimeout(timer) == IF timer = "armed" THEN "cleared" ELSE timer

\* a reply callback that resolves with `result` whatever the envelope holds
onReply_resultOnly(call, text, inExecutor) ==
  LET parsed == JSONparse(text)
      cleared == [call EXCEPT !.timer = clearTimeout(call.timer),
                              !.log = Append(call.log, [e |-> "reply", text |-> text])]
  IN IF isError(parsed)
     THEN IF inExecutor
          THEN [cleared EXCEPT !.future = reject(call.future, parsed)]
          ELSE [cleared EXCEPT !.thrown = Append(call.thrown, parsed)]
     ELSE [cleared EXCEPT !.future = resolve(call.future, prop("result", parsed))]

\* a reply callback that leaves the timer of the request running
onReply_timerLeft(call, text, inExecutor) ==
  LET parsed == JSONparse(text)
      logged == [call EXCEPT !.log = Append(call.log, [e |-> "reply", text |-> text])]
  IN IF isError(parsed)
     THEN IF inExecutor
          THEN [logged EXCEPT !.future = reject(call.future, parsed)]
          ELSE [logged EXCEPT !.thrown = Append(call.thrown, parsed)]
     ELSE IF isNil(prop("error", parsed))
     THEN [logged EXCEPT !.future = resolve(call.future, prop("result", parsed))]
     ELSE [logged EXCEPT !.future =
             reject(call.future, Error(prop("message", prop("error", parsed))))]

\* the reply callback: clearTimeout, JSON.parse, then resolve or reject.
\* inExecutor: the transport called back inside request(), so what the
\* callback throws is thrown out of the promise's executor and rejects the
\* future; thrown later, it goes to the transport.
onReply(call, text, inExecutor) ==
  LET parsed == JSONparse(text)
      cleared == [call EXCEPT !.timer = clearTimeout(call.timer),
                              !.log = Append(call.log, [e |-> "reply", text |-> text])]
  IN IF isError(parsed)
     THEN IF inExecutor
          THEN [cleared EXCEPT !.future = reject(call.future, parsed)]
          ELSE [cleared EXCEPT !.thrown = Append(call.thrown, parsed)]
     ELSE IF isNil(prop("error", parsed))
     THEN [cleared EXCEPT !.future = resolve(call.future, prop("result", parsed))]
     ELSE [cleared EXCEPT !.future =
             reject(call.future, Error(prop("message", prop("error", parsed))))]

\* an executor that sets its timer whether or not a reply is awaited
Provider_exec_timer(fn, noAckStream, timeout, query, syncReply) ==
  LET call == [query |-> query, noAckStream |-> noAckStream, timeout |-> timeout,
               timer |-> "armed", timers |-> 1,
               sent |-> <<[fn |-> fn, msg |-> JSONstringify(query),
                           callback |-> ~noAckStream]>>,
               future |-> Pending, log |-> <<>>, thrown |-> <<>>]
  IN IF noAckStream
     THEN [call EXCEPT !.future = resolve(call.future, Undefined)]
     ELSE IF syncReply.t = "undefined" THEN call
     ELSE onReply(call, syncReply, TRUE)

\* exec(request, { noAckStream, timeout }, query); fn is the transport
\* function `request` is bound to, syncReply what the transport hands to the
\* callback before request() returns (undefined: nothing)
Provider_exec(fn, noAckStream, timeout, query, syncReply) ==
  LET msg == JSONstringify(query)
      call == [query |-> query, noAckStream |-> noAckStream, timeout |-> timeout,
               timer |-> IF noAckStream THEN "none" ELSE "armed",
               timers |-> IF noAckStream THEN 0 ELSE 1,
               sent |-> <<[fn |-> fn, msg |-> msg, callback |-> ~noAckStream]>>,
               future |-> Pending, log |-> <<>>, thrown |-> <<>>]
  IN IF noAckStream
     THEN [call EXCEPT !.future = resolve(call.future, Undefined)]
     ELSE IF syncReply.t = "undefined" THEN call
     ELSE onReply(call, syncReply, TRUE)

\* a timeout that rejects with a plain Error, the query left out
onTimeout_plainError(call) ==
  [call EXCEPT !.timer = "fired",
               !.log = Append(call.log, [e |-> "timeout", text |-> Undefined]),
               !.future = reject(call.future, Error(TimeoutMessage(call.timeout)))]

\* setTimeout's callback: reject with the ProviderError built at the call
onTimeout(call) ==
  [call EXCEPT !.timer = "fired",
               !.log = Append(call.log, [e |-> "timeout", text |-> Undefined]),
               !.future = reject(call.future,
                                 ProviderError(TimeoutMessage(call.timeout), call.query))]

\* options.timeout and options.batchSize when the Provider is given none
DefaultTimeout == 1000
DefaultBatchSize == 5000

\* the calls made: a query with the timeout of 10 ms, another with the
\* default one
ExecInputs ==
  {[query |-> Obj(<<KV("a", Num(1))>>), timeout |-> 10],
   [query |-> Obj(<<>>), timeout |-> DefaultTimeout]}

ReplyValues == {Null, Num(7), Arr(<<Obj(<<KV("b", Num(1))>>)>>)}
ReplyMessages == {Word("msg"), Str(<<>>)}

\* what a transport may deliver as a reply
ReplyTexts ==
  {JSONstringify(objOf("result", v)) : v \in ReplyValues} \cup
  {JSONstringify(objOf("error", objOf("message", m))) : m \in ReplyMessages} \cup
  {Str(<<P("{")>>)}

\* the ways the Provider binds the executor: a request awaiting its reply,
\* a publish and a request that await none
ExecModes ==
  {[fn |-> "request", noAckStream |-> FALSE],
   [fn |-> "publish", noAckStream |-> TRUE],
   [fn |-> "request", noAckStream |-> TRUE]}

ExecCall(mode, input, syncReply) ==
  /\ Len(calls) < MaxCalls
  /\ mode.noAckStream => syncReply = Undefined
  /\ calls' = Append(calls,
                     Provider_exec(mode.fn, mode.noAckStream, input.timeout, input.query,
                                   syncReply))
  /\ UNCHANGED <<storeVars, providerVars>>

\* request(subject, msg, { max: 1 }, callback): the replies the transport
\* delivers to one request
max == 1

\* the transport invokes the reply callback of a request
Reply(c, text) ==
  /\ c \in 1..Len(calls)
  /\ ~calls[c].noAckStream
  /\ Cardinality({i \in 1..Len(calls[c].log) : calls[c].log[i].e = "reply"}) < max
  /\ calls' = [calls EXCEPT ![c] = onReply(calls[c], text, FALSE)]
  /\ UNCHANGED <<storeVars, providerVars>>

\* a transport that does not stop at `max` hands the callback another reply,
\* as when a second Store answers the same request
ReplyAgain(c, text) ==
  /\ c \in 1..Len(calls)
  /\ ~calls[c].noAckStream
  /\ Cardinality({i \in 1..Len(calls[c].log) : calls[c].log[i].e = "reply"})
       \in max..(MaxReplies - 1)
  /\ calls' = [calls EXCEPT ![c] = onReply(calls[c], text, FALSE)]
  /\ UNCHANGED <<storeVars, providerVars>>

TimerFire(c) ==
  /\ c \in 1..Len(calls)
  /\ calls[c].timer = "armed"
  /\ calls' = [calls EXCEPT ![c] = onTimeout(calls[c])]
  /\ UNCHANGED <<storeVars, providerVars>>

(***************************************************************************)
(* Provider: batchExec, the paging loop.                                   *)
(***************************************************************************)
\* x || d
orElse(x, d) ==
  IF isNil(x) \/ x = Num(0) \/ x = Bool(FALSE) \/ x = Str(<<>>) THEN d ELSE x

min(a, b) == IF b < a THEN b ELSE a

NoBatch == [state |-> "idle"]

\* a page request of limit and skip alone, the caller's options left out
batchQuery_bare(b) ==
  Obj(<<KV("limit", Num(min(b.left, b.batchSize))),
        KV("skip", Num(b.batchSize * b.skip))>>)

\* { ...options, limit: min(left, batchSize), skip: batchSize * skip }
batchQuery(b) ==
  merge(b.options,
        Obj(<<KV("limit", Num(min(b.left, b.batchSize))),
              KV("skip", Num(b.batchSize * b.skip))>>))

\* a batchExec that asks for the next page whatever the length of the last
batchExec_page_noBreak(b, page) ==
  LET next == [b EXCEPT !.result = b.result \o page,
                        !.left = b.left - b.batchSize,
                        !.pages = Append(b.pages, Len(page)),
                        !.skip = b.skip + 1]
  IN IF next.left > 0
     THEN [next EXCEPT !.requests = Append(b.requests, batchQuery(next))]
     ELSE [next EXCEPT !.state = "resolved"]

\* batchExec up to its first `await exec(...)`: the loop is entered when
\* left > 0; `pages` keeps the length of every page received
batchExec(batchSize, options) ==
  LET limit == orElse(prop("limit", options), Num(batchSize)).v
      b == [batchSize |-> batchSize, options |-> options, skip |-> 0,
            left |-> limit, result |-> <<>>, requests |-> <<>>, pages |-> <<>>,
            state |-> "running", error |-> Undefined]
  IN IF limit > 0
     THEN [b EXCEPT !.requests = <<batchQuery(b)>>]
     ELSE [b EXCEPT !.state = "resolved"]

\* the loop from one `await exec(...)` resolving with `page` to the next
batchExec_page(b, page) ==
  LET next == [b EXCEPT !.result = b.result \o page,
                        !.left = b.left - b.batchSize,
                        !.pages = Append(b.pages, Len(page))]
  IN IF Len(page) < b.batchSize
     THEN [next EXCEPT !.state = "resolved"]
     ELSE LET turned == [next EXCEPT !.skip = b.skip + 1]
          IN IF turned.left > 0
             THEN [turned EXCEPT !.requests = Append(b.requests, batchQuery(turned))]
             ELSE [turned EXCEPT !.state = "resolved"]

\* `await exec(...)` rejecting: the async function rejects with the error
batchExec_fail(b, e) == [b EXCEPT !.state = "rejected", !.error = e]

\* the options batchExec is called with
BatchOptions ==
  {Obj(<<>>)} \cup {Obj(<<KV("limit", Num(n))>>) : n \in 0..MaxLimit}
  \cup {Obj(<<KV("sort", Num(1)), KV("skip", Num(1))>>),
         Obj(<<KV("sort", Num(1)), KV("skip", Num(1)), KV("limit", Num(MaxLimit))>>)}

BatchCall(batchSize, options) ==
  /\ batch = NoBatch
  /\ batch' = batchExec(batchSize, options)
  /\ UNCHANGED <<storeVars, calls, provider, operation, db, stream, emitter>>

\* the page function resolves with n items; the items are numbered as they
\* are handed out, those of a run all different
BatchPage(n) ==
  /\ batch.state = "running"
  /\ batch' = batchExec_page(batch,
                             [i \in 1..n |-> Num(Len(batch.result) + i)])
  /\ UNCHANGED <<storeVars, calls, provider, operation, db, stream, emitter>>

\* the page function rejects
BatchFail ==
  /\ batch.state = "running"
  /\ batch' = batchExec_fail(batch, Error(Word("msg")))
  /\ UNCHANGED <<storeVars, calls, provider, operation, db, stream, emitter>>

(***************************************************************************)
(* Provider: the constructor and the public operations.                    *)
(***************************************************************************)
DELETED == "metadata.deleted"
UPDATED == "metadata.updated"

\* this._defaultConditions
defaultConditions(hasMetadata) ==
  IF hasMetadata
  THEN Obj(<<KV("$or", Arr(<<Obj(<<KV("metadata", Obj(<<KV("$eq", Null)>>))>>),
                             Obj(<<KV(DELETED, Obj(<<KV("$eq", Null)>>))>>),
                             Obj(<<KV(DELETED, Obj(<<KV("$exists", Bool(FALSE))>>))>>)>>))>>)
  ELSE Obj(<<>>)

\* new Provider({ schema, transport, options: { batchSize, noAckStream } }):
\* hasMetadata is whether schema.fields.metadata.deleted is set
Provider(hasMetadata, batchSize, noAckStream) ==
  [_hasMetadata |-> hasMetadata, _batchSize |-> batchSize,
   noAckStream |-> noAckStream, timeout |-> DefaultTimeout,
   _subjects |-> getSubjects(goodSchema.name, Prefixes, ""),
   _defaultConditions |-> defaultConditions(hasMetadata)]

mergeConditions(p, conditions) == merge(p._defaultConditions, conditions)

\* prop('length') and head of what a find replied
length(x) == IF x.t = "array" THEN Num(Len(x.v)) ELSE Undefined
head(x) == IF x.t = "array" /\ x.v # <<>> THEN x.v[1] ELSE Undefined

\* a reducer that takes the first element of any list
returnOneOnly_first(x) == IF x.t = "array" /\ x.v # <<>> THEN head(x) ELSE Null

returnOneOnly(x) == IF length(x) = Num(1) THEN head(x) ELSE Null

NoOp == [name |-> "none"]

\* the arguments of an operation; those it does not take are undefined
Args(conditions, projection, options, id, object) ==
  [conditions |-> conditions, projection |-> projection, options |-> options,
   id |-> id, object |-> object]

\* this._count, this._create, this._find, this._update: the executor bound
\* to the base subject of the group; only _create is given noAckStream
Provider_send(p, o, group, query) ==
  [o EXCEPT !.execs =
     Append(o.execs,
            [subject |-> p._subjects[group][1],
             call |-> Provider_exec("request", group = "create" /\ p.noAckStream,
                                    p.timeout, query, Undefined)])]

\* reject `... must be set`: the tag function receives the array of the
\* literal's strings, whose String() joins them with a comma
must(w) == Error(Word(w))

\* checks that look at the first argument only
argumentError_firstOnly(p, name, a) ==
  CASE name = "count" /\ isNil(a.conditions) -> must("conditions must be set")
    [] name = "create" /\ isNil(a.object) -> must("object must be set")
    [] name = "delete" /\ ~p._hasMetadata -> must(", cannot be marked as deleted")
    [] name = "deleteById" /\ isNil(a.id) -> must("id must be set")
    [] name = "find" /\ isNil(a.conditions) -> must("conditions must be set")
    [] name = "findById" /\ isNil(a.id) -> must("id must be set")
    [] name = "updateById" /\ isNil(a.id) -> must("id must be set")
    [] OTHER -> Undefined

\* the error of the first check that fails, or undefined
argumentError(p, name, a) ==
  CASE name = "count" ->
         IF isNil(a.conditions) THEN must("conditions must be set") ELSE Undefined
    [] name = "countAll" -> Undefined
    [] name = "create" ->
         IF isNil(a.object) THEN must("object must be set")
         ELSE IF isNil(a.projection) THEN must("projection must be set")
         ELSE Undefined
    [] name = "delete" ->
         IF ~p._hasMetadata THEN must(", cannot be marked as deleted")
         ELSE IF isNil(a.conditions) THEN must("conditions must be set")
         ELSE IF isNil(a.projection) THEN must("projection must be set")
         ELSE Undefined
    [] name = "deleteById" ->
         IF isNil(a.id) THEN must("id must be set")
         ELSE IF ~p._hasMetadata THEN must(", cannot be marked as deleted")
         ELSE IF isNil(a.projection) THEN must("projection must be set")
         ELSE Undefined
    [] name = "find" ->
         IF isNil(a.conditions) THEN must("conditions must be set")
         ELSE IF isNil(a.projection) THEN must("projection must be set")
         ELSE Undefined
    [] name = "findAll" ->
         IF isNil(a.projection) THEN must("projection must be set") ELSE Undefined
    [] name = "findById" ->
         IF isNil(a.id) THEN must("id must be set")
         ELSE IF isNil(a.projection) THEN must("projection must be set")
         ELSE Undefined
    [] name = "updateById" ->
         IF isNil(a.id) THEN must("id must be set")
         ELSE IF isNil(a.object) THEN must("object must be set")
         ELSE IF isNil(a.projection) THEN must("projection must be set")
         ELSE Undefined

\* the request of one page: _options => this._find({ conditions, options:
\* _options, projection })
pageQuery(o, _options) ==
  Obj(<<KV("conditions", o.conditions), KV("options", _options),
        KV("projection", o.args.projection)>>)

\* { limit: 1 }
limitOne == Obj(<<KV("limit", Num(1))>>)

\* batchExec(..., this._batchSize, options) and its first page request
Provider_batch(p, o, options) ==
  LET b == batchExec(p._batchSize, options)
      started == [o EXCEPT !.b = b, !.stage = "batch"]
  IN IF b.state = "running"
     THEN Provider_send(p, started, "find", pageQuery(o, b.requests[1]))
     ELSE [started EXCEPT !.stage = "done",
                          !.future = resolve(o.future, Arr(b.result))]

\* an operation whose arguments passed the checks, up to its first request
Provider_dispatch(p, name, a) ==
  LET o == [name |-> name, args |-> a, execs |-> <<>>, stage |-> "last",
            b |-> NoBatch, one |-> FALSE, conditions |-> Undefined,
            future |-> Pending]
      byId == objOf("_id", a.id)
      \* an absent `options` takes the default {}
      options == IF a.options = Undefined THEN Obj(<<>>) ELSE a.options
  IN CASE name = "count" ->
            Provider_send(p, o, "count",
                          objOf("conditions", mergeConditions(p, a.conditions)))
       [] name = "countAll" ->
            Provider_send(p, o, "count", objOf("conditions", p._defaultConditions))
       [] name = "create" ->
            Provider_send(p, o, "create",
                          Obj(<<KV("object", a.object), KV("projection", a.projection)>>))
       [] name \in {"delete", "deleteById"} ->
            LET conditions == IF name = "delete" THEN a.conditions ELSE byId
            IN Provider_send(
                 p,
                 [o EXCEPT !.stage = "update, then find the deleted",
                           !.one = (name = "deleteById"),
                           \* { ...conditions, [DELETED]: { $exists, $ne } }
                           !.conditions =
                              merge(conditions,
                                    objOf(DELETED, Obj(<<KV("$exists", Bool(TRUE)),
                                                         KV("$ne", Null)>>)))],
                 "update",
                 Obj(<<KV("conditions", mergeConditions(p, conditions)),
                       KV("object",
                          objOf("$currentDate", Obj(<<KV(DELETED, Bool(TRUE)),
                                                      KV(UPDATED, Bool(TRUE))>>))),
                       KV("projection", a.projection)>>))
       [] name \in {"find", "findAll"} ->
            LET conditions == IF name = "find" THEN a.conditions ELSE Obj(<<>>)
            IN Provider_batch(p, [o EXCEPT !.conditions = mergeConditions(p, conditions)],
                              options)
       [] name = "findById" ->
            Provider_send(p, [o EXCEPT !.one = TRUE], "find",
                          Obj(<<KV("conditions", mergeConditions(p, byId)),
                                KV("projection", a.projection),
                                KV("options", limitOne)>>))
       [] name = "updateById" ->
            Provider_send(
              p, [o EXCEPT !.stage = "update, then find by id", !.one = TRUE],
              "update",
              Obj(<<KV("conditions", mergeConditions(p, byId)),
                    KV("object",
                       IF ~p._hasMetadata THEN a.object
                       ELSE merge(a.object,
                                  objOf("$currentDate",
                                        objOf(UPDATED, Bool(TRUE))))),
                    KV("projection", a.projection)>>))

\* a chain whose follow-up request is sent however the update settled
Provider_step_always(p, o) ==
  LET f == o.execs[Len(o.execs)].call.future
      settle(v) == [o EXCEPT !.stage = "done",
                             !.future = resolve(o.future,
                                                IF o.one THEN returnOneOnly(v) ELSE v)]
  IN IF o.stage = "done" \/ f.state = "pending" THEN o
     ELSE IF f.state = "rejected" /\ o.stage \in {"last", "batch"}
     THEN [o EXCEPT !.stage = "done", !.future = reject(o.future, f.value)]
     ELSE CASE o.stage = "last" -> settle(f.value)
            [] o.stage = "update, then find the deleted" ->
                 Provider_batch(p, o, Obj(<<>>))
            [] o.stage = "update, then find by id" ->
                 Provider_send(p, [o EXCEPT !.stage = "last"], "find",
                               Obj(<<KV("conditions", objOf("_id", o.args.id)),
                                     KV("projection", o.args.projection),
                                     KV("options", limitOne)>>))
            [] o.stage = "batch" ->
                 IF f.value.t # "array"
                 THEN [o EXCEPT !.stage = "done",
                                !.future = reject(o.future,
                                                  TypeError("batch is not iterable"))]
                 ELSE LET b == batchExec_page(o.b, f.value.v)
                          paged == [o EXCEPT !.b = b]
                      IN IF b.state = "running"
                         THEN Provider_send(p, paged, "find",
                                            pageQuery(o, b.requests[Len(b.requests)]))
                         ELSE settle(Arr(b.result))

\* the promise chain of an operation, run as far as the future of its last
\* request allows
Provider_step(p, o) ==
  LET f == o.execs[Len(o.execs)].call.future
      settle(v) == [o EXCEPT !.stage = "done",
                             !.future = resolve(o.future,
                                                IF o.one THEN returnOneOnly(v) ELSE v)]
  IN IF o.stage = "done" \/ f.state = "pending" THEN o
     ELSE IF f.state = "rejected"
     THEN [o EXCEPT !.stage = "done", !.future = reject(o.future, f.value)]
     ELSE CASE o.stage = "last" -> settle(f.value)
            [] o.stage = "update, then find the deleted" ->
                 Provider_batch(p, o, Obj(<<>>))
            [] o.stage = "update, then find by id" ->
                 Provider_send(p, [o EXCEPT !.stage = "last"], "find",
                               Obj(<<KV("conditions", objOf("_id", o.args.id)),
                                     KV("projection", o.args.projection),
                                     KV("options", limitOne)>>))
            [] o.stage = "batch" ->
                 IF f.value.t # "array"
                 THEN \* result.push(...batch) of what cannot be iterated
                      [o EXCEPT !.stage = "done",
                                !.future = reject(o.future,
                                                  TypeError("batch is not iterable"))]
                 ELSE LET b == batchExec_page(o.b, f.value.v)
                          paged == [o EXCEPT !.b = b]
                      IN IF b.state = "running"
                         THEN Provider_send(p, paged, "find",
                                            pageQuery(o, b.requests[Len(b.requests)]))
                         ELSE settle(Arr(b.result))

\* provider[name](...args)
Provider_call(p, name, a) ==
  LET e == argumentError(p, name, a)
  IN IF e # Undefined
     THEN [name |-> name, args |-> a, execs |-> <<>>, stage |-> "done",
           b |-> NoBatch, one |-> FALSE, conditions |-> Undefined,
           future |-> reject(Pending, e)]
     ELSE Provider_step(p, Provider_dispatch(p, name, a))

(***************************************************************************)
(* Provider: operations called, replies delivered, timers firing.          *)
(***************************************************************************)
Doc(id) == Obj(<<KV("_id", Num(id))>>)

\* conditions a caller passes: none, a field, and a $or of its own
UserConditions ==
  {Obj(<<>>), Obj(<<KV("a", Num(1))>>),
   Obj(<<KV("$or", Arr(<<Obj(<<KV("a", Num(1))>>)>>))>>)}

Projections == {Undefined, Obj(<<KV("b", Num(1))>>)}
Ids == {Null, Num(1)}
\* no object, a replacement document, and an update with operators of its own
Objects ==
  {Undefined, Obj(<<KV("a", Num(1))>>),
   Obj(<<KV("$currentDate", Obj(<<KV("seen", Bool(TRUE))>>)),
         KV("$set", Obj(<<KV("a", Num(1))>>))>>)}
\* no options, or a limit that takes more than one batch
FindOptions == {Undefined, Obj(<<KV("limit", Num(MaxBatchSize + 1))>>)}

ProviderCalls ==
  {[name |-> "count", args |-> Args(c, Undefined, Undefined, Undefined, Undefined)] :
     c \in UserConditions \cup {Null}} \cup
  {[name |-> "countAll",
    args |-> Args(Undefined, Undefined, Undefined, Undefined, Undefined)]} \cup
  {[name |-> "create", args |-> Args(Undefined, pr, Undefined, Undefined, o)] :
     pr \in Projections, o \in Objects} \cup
  {[name |-> "delete", args |-> Args(c, pr, Undefined, Undefined, Undefined)] :
     c \in UserConditions \cup {Null}, pr \in Projections} \cup
  {[name |-> "deleteById", args |-> Args(Undefined, pr, Undefined, id, Undefined)] :
     pr \in Projections, id \in Ids} \cup
  {[name |-> "find", args |-> Args(c, pr, opts, Undefined, Undefined)] :
     c \in UserConditions \cup {Null}, pr \in Projections, opts \in FindOptions} \cup
  {[name |-> "findAll", args |-> Args(Undefined, pr, opts, Undefined, Undefined)] :
     pr \in Projections, opts \in FindOptions} \cup
  {[name |-> "findById", args |-> Args(Undefined, pr, Undefined, id, Undefined)] :
     pr \in Projections, id \in Ids} \cup
  {[name |-> "updateById", args |-> Args(Undefined, pr, Undefined, id, o)] :
     pr \in Projections, id \in Ids, o \in Objects}

\* what the other end may answer: a list of documents, a number, an error
\* envelope, or text that is not JSON
ProviderReplies ==
  {JSONstringify(objOf("result", Arr([i \in 1..n |-> Doc(i)]))) : n \in 0..MaxBatchSize}
  \cup {JSONstringify(objOf("result", Num(7))),
        JSONstringify(objOf("error", objOf("message", Word("msg")))),
        Str(<<P("{")>>)}

\* the request the operation is waiting on
Active(o) == o.execs[Len(o.execs)].call

Awaiting(o) ==
  IF o = NoOp THEN FALSE ELSE o.future.state = "pending" /\ o.execs # <<>>

ProviderCall(c) ==
  /\ IF operation = NoOp THEN TRUE ELSE operation.future.state # "pending"
  /\ operation' = Provider_call(provider, c.name, c.args)
  /\ UNCHANGED <<storeVars, calls, batch, provider, db, stream, emitter>>

\* the transport invokes the reply callback of the request
ProviderReply(text) ==
  /\ Awaiting(operation)
  /\ Cardinality({i \in 1..Len(Active(operation).log) :
                    Active(operation).log[i].e = "reply"}) < max
  /\ operation' =
       Provider_step(provider,
                     [operation EXCEPT !.execs[Len(operation.execs)].call =
                                          onReply(@, text, FALSE)])
  /\ UNCHANGED <<storeVars, calls, batch, provider, db, stream, emitter>>

\* the timer of the request fires
ProviderTimeout ==
  /\ Awaiting(operation)
  /\ Active(operation).timer = "armed"
  /\ operation' =
       Provider_step(provider,
                     [operation EXCEPT !.execs[Len(operation.execs)].call = onTimeout(@)])
  /\ UNCHANGED <<storeVars, calls, batch, provider, db, stream, emitter>>

(***************************************************************************)
(* The Provider as a Writable in object mode.  write() hands a chunk to    *)
(* _write when nothing is being written and buffers it otherwise; when the *)
(* callback of a write is invoked, the buffered chunks go to _writev       *)
(* together if there are more than one, and to _write if there is one.     *)
(***************************************************************************)
NoStream ==
  [written |-> <<>>, buffered |-> <<>>, writing |-> FALSE, batches |-> <<>>,
   sends |-> <<>>, callbacks |-> 0, errors |-> <<>>]

\* const projection = { id: 1 }
streamProjection == Obj(<<KV("id", Num(1))>>)

\* this._streamCreate(object): publish without a reply with noAckStream,
\* this._create otherwise
streamCreate(p, object) ==
  [subject |-> p._subjects.create[1],
   call |-> Provider_exec(IF p.noAckStream THEN "publish" ELSE "request",
                          p.noAckStream, p.timeout,
                          Obj(<<KV("object", object),
                                KV("projection", streamProjection)>>),
                          Undefined)]

Provider_write(p, s, chunk) ==
  [s EXCEPT !.sends = Append(@, streamCreate(p, chunk))]

\* a _writev that sends the first chunk of the batch by itself
Provider_writev_head(p, s, objs) ==
  LET chunks == [i \in 1..Len(objs) |-> objs[i].chunk]
  IN [s EXCEPT !.sends = Append(@, streamCreate(p, chunks[1]))]

Provider_writev(p, s, objs) ==
  LET chunks == [i \in 1..Len(objs) |-> objs[i].chunk]
  IN [s EXCEPT !.sends = Append(@, streamCreate(p, Arr(chunks)))]

\* the chunks of the source, in the order it yields them
Chunk(n) == Obj(<<KV("a", Num(n))>>)

\* the write the stream is waiting on
Writing(s) == s.sends[Len(s.sends)].call

\* the source pushes its next chunk and the pipe writes it to the Provider
StreamWrite ==
  /\ Len(stream.written) < MaxChunks
  /\ LET chunk == Chunk(Len(stream.written))
         s == [stream EXCEPT !.written =
                 Append(@, [chunk |-> chunk, callbacks |-> stream.callbacks])]
     IN stream' =
          IF stream.writing
          THEN [s EXCEPT !.buffered = Append(@, [chunk |-> chunk])]
          ELSE Provider_write(provider,
                              [s EXCEPT !.writing = TRUE,
                                        !.batches = Append(@, [v |-> FALSE,
                                                               chunks |-> <<chunk>>])],
                              chunk)
  /\ UNCHANGED <<storeVars, calls, batch, provider, operation, db, emitter>>

\* the transport invokes the reply callback of the write's request
StreamReply(text) ==
  /\ stream.writing
  /\ Writing(stream).future.state = "pending"
  /\ Cardinality({i \in 1..Len(Writing(stream).log) :
                    Writing(stream).log[i].e = "reply"}) < max
  /\ stream' = [stream EXCEPT !.sends[Len(stream.sends)].call = onReply(@, text, FALSE)]
  /\ UNCHANGED <<storeVars, calls, batch, provider, operation, db, emitter>>

\* the timer of the write's request fires
StreamTimeout ==
  /\ stream.writing
  /\ Writing(stream).timer = "armed"
  /\ stream' = [stream EXCEPT !.sends[Len(stream.sends)].call = onTimeout(@)]
  /\ UNCHANGED <<storeVars, calls, batch, provider, operation, db, emitter>>

\* a completion that emits the rejection once for every chunk of the write
StreamCallback_perChunk ==
  /\ stream.writing
  /\ Writing(stream).future.state # "pending"
  /\ LET s == [stream EXCEPT
                 !.callbacks = @ + 1,
                 !.buffered = <<>>,
                 !.errors = IF Writing(stream).future.state = "rejected"
                            THEN @ \o [i \in 1..Len(stream.batches[Len(stream.batches)].chunks)
                                         |-> Writing(stream).future.value]
                            ELSE @]
         objs == stream.buffered
     IN stream' =
          IF objs = <<>> THEN [s EXCEPT !.writing = FALSE]
          ELSE IF Len(objs) > 1
          THEN Provider_writev(provider,
                               [s EXCEPT !.batches =
                                  Append(@, [v |-> TRUE,
                                             chunks |-> [i \in 1..Len(objs) |-> objs[i].chunk]])],
                               objs)
          ELSE Provider_write(provider,
                              [s EXCEPT !.batches =
                                 Append(@, [v |-> FALSE, chunks |-> <<objs[1].chunk>>])],
                              objs[1].chunk)
  /\ UNCHANGED <<storeVars, calls, batch, provider, operation, db, emitter>>

\* a _write and _writev that invoke callback() without awaiting the create
StreamCallback_noAwait ==
  /\ stream.writing
  /\ LET s == [stream EXCEPT
                 !.callbacks = @ + 1,
                 !.buffered = <<>>,
                 !.errors = IF Writing(stream).future.state = "rejected"
                            THEN Append(@, Writing(stream).future.value) ELSE @]
         objs == stream.buffered
     IN stream' =
          IF objs = <<>> THEN [s EXCEPT !.writing = FALSE]
          ELSE IF Len(objs) > 1
          THEN Provider_writev(provider,
                               [s EXCEPT !.batches =
                                  Append(@, [v |-> TRUE,
                                             chunks |-> [i \in 1..Len(objs) |-> objs[i].chunk]])],
                               objs)
          ELSE Provider_write(provider,
                              [s EXCEPT !.batches =
                                 Append(@, [v |-> FALSE, chunks |-> <<objs[1].chunk>>])],
                              objs[1].chunk)
  /\ UNCHANGED <<storeVars, calls, batch, provider, operation, db, emitter>>

\* the awaited future settles: a rejection is emitted as `stream-error`,
\* callback() is invoked and the stream takes up what it has buffered
StreamCallback ==
  /\ stream.writing
  /\ Writing(stream).future.state # "pending"
  /\ LET s == [stream EXCEPT
                 !.callbacks = @ + 1,
                 !.buffered = <<>>,
                 !.errors = IF Writing(stream).future.state = "rejected"
                            THEN Append(@, Writing(stream).future.value) ELSE @]
         objs == stream.buffered
     IN stream' =
          IF objs = <<>> THEN [s EXCEPT !.writing = FALSE]
          ELSE IF Len(objs) > 1
          THEN Provider_writev(provider,
                               [s EXCEPT !.batches =
                                  Append(@, [v |-> TRUE,
                                             chunks |-> [i \in 1..Len(objs) |-> objs[i].chunk]])],
                               objs)
          ELSE Provider_write(provider,
                              [s EXCEPT !.batches =
                                 Append(@, [v |-> FALSE, chunks |-> <<objs[1].chunk>>])],
                              objs[1].chunk)
  /\ UNCHANGED <<storeVars, calls, batch, provider, operation, db, emitter>>

\* what the other end may answer to a write
StreamReplies ==
  {JSONstringify(objOf("result", Arr(<<Chunk(0)>>))),
   JSONstringify(objOf("error", objOf("message", Word("msg"))))}

(***************************************************************************)
(* The Provider as an EventEmitter and as a Readable.  A listener is       *)
(* [fn, wrap]: a function of the user or the Provider's bound _onCreate,   *)
(* with wrap 0, or wrapper number `wrap` that once() made around it.       *)
(* this._listeners holds a Map per event, kept as the sequence of its      *)
(* [listener, sids] entries in insertion order.                            *)
(***************************************************************************)
ProviderEvents == [Create |-> "create", StreamError |-> "stream-error", Update |-> "update"]

isCreateOrUpdate(eventName) ==
  eventName = ProviderEvents.Create \/ eventName = ProviderEvents.Update

\* the events of the model: create, update and one of another name
EventNames == {"create", "update", "misc"}

\* removeAllListeners() without an argument
NoEventName == "undefined"

Listener(fn) == [fn |-> fn, wrap |-> 0]

\* events.once: _onceWrap(target, type, listener)
onceWrap(n, listener) == [fn |-> listener.fn, wrap |-> n]

NoEmitter ==
  [_listeners |-> [create |-> <<>>, update |-> <<>>],
   events |-> [eventName \in EventNames |-> <<>>],
   subs |-> {}, nextSid |-> 1, wraps |-> 0, registrations |-> 0,
   _readableStreamInitialized |-> FALSE,
   op |-> <<"none">>,
   calls |-> <<>>, thrown |-> Undefined, invoked |-> <<>>, pushed |-> <<>>,
   emitted |-> <<>>]

\* Map.prototype.has, get, set and delete
MapHas(m, listener) == \E i \in 1..Len(m) : m[i].listener = listener
MapGet(m, listener) == m[CHOOSE i \in 1..Len(m) : m[i].listener = listener].sids
MapSet(m, listener, ids) ==
  IF MapHas(m, listener)
  THEN [i \in 1..Len(m) |->
          IF m[i].listener = listener THEN [listener |-> listener, sids |-> ids]
          ELSE m[i]]
  ELSE Append(m, [listener |-> listener, sids |-> ids])
MapDelete(m, listener) ==
  LET Others(entry) == entry.listener # listener IN SelectSeq(m, Others)

\* for (const x of map.values()) sids.push(...x)
RECURSIVE MapSids(_)
MapSids(m) == IF m = <<>> THEN <<>> ELSE Head(m).sids \o MapSids(Tail(m))

\* this._subjects[eventName].map(sub => this._subscribe(sub, processEvent(...)))
\* followed by this._addListener(eventName, listener, sids)
Provider_subscribe(p, e, eventName, listener) ==
  LET subjects == p._subjects[eventName]
      ids == [i \in 1..Len(subjects) |-> e.nextSid + i - 1]
  IN [e EXCEPT
        !.subs = @ \cup {[sid |-> ids[i], subject |-> subjects[i], event |-> eventName,
                           for |-> listener.fn] : i \in 1..Len(subjects)},
        !.nextSid = @ + Len(subjects),
        !.calls = @ \o [i \in 1..Len(subjects) |->
                          [fn |-> "subscribe", args |-> <<subjects[i]>>, sid |-> ids[i]]],
        !._listeners[eventName] = MapSet(@, listener, ids)]

\* sids.map(this._unsubscribe): map passes (element, index, array)
Provider_unsubscribe(e, ids) ==
  [e EXCEPT
     !.subs = {s \in @ : \A i \in 1..Len(ids) : s.sid # ids[i]},
     !.calls = @ \o [i \in 1..Len(ids) |->
                       [fn |-> "unsubscribe", args |-> <<ids[i], i - 1, ids>>]]]

\* Provider.on, then EventEmitter's on, which appends the listener
Provider_on(p, e, eventName, listener) ==
  LET added == IF isCreateOrUpdate(eventName)
               THEN Provider_subscribe(p, e, eventName, listener)
               ELSE e
  IN [added EXCEPT !.events[eventName] = Append(@, listener)]

\* Provider.once, then EventEmitter's once, which is
\* this.on(type, _onceWrap(this, type, listener)) and so comes back to
\* Provider.on with the wrapper
Provider_once(p, e, eventName, listener) ==
  LET added == IF isCreateOrUpdate(eventName)
               THEN Provider_subscribe(p, e, eventName, listener)
               ELSE e
  IN Provider_on(p, [added EXCEPT !.wraps = @ + 1], eventName,
                 onceWrap(added.wraps + 1, listener))

\* EventEmitter's removeListener: the last entry that is the listener or
\* a wrapper whose .listener it is
Removes(entry, listener) ==
  entry = listener \/ (entry.wrap > 0 /\ listener.wrap = 0 /\ entry.fn = listener.fn)

EventEmitter_removeListener(e, eventName, listener) ==
  LET list == e.events[eventName]
      found == {i \in 1..Len(list) : Removes(list[i], listener)}
  IN IF found = {} THEN e
     ELSE LET at == CHOOSE i \in found : \A j \in found : j <= i
          IN [e EXCEPT !.events[eventName] =
                [i \in 1..Len(list) - 1 |-> IF i < at THEN list[i] ELSE list[i + 1]]]

\* Provider.removeListener: this._removeListener(eventName, listener) is
\* Map.get, which is undefined for a listener without an entry, and the
\* .map on it throws
Provider_removeListener(e, eventName, listener) ==
  IF isCreateOrUpdate(eventName)
  THEN IF ~MapHas(e._listeners[eventName], listener)
       THEN [e EXCEPT !.thrown = TypeError("Cannot read property 'map' of undefined")]
       ELSE EventEmitter_removeListener(
              Provider_unsubscribe(
                [e EXCEPT !._listeners[eventName] = MapDelete(@, listener)],
                MapGet(e._listeners[eventName], listener)),
              eventName, listener)
  ELSE EventEmitter_removeListener(e, eventName, listener)

\* Provider._removeAllListeners and removeAllListeners
Provider_removeAllListeners(e, eventName) ==
  IF eventName = NoEventName
  THEN [Provider_unsubscribe(
          [e EXCEPT !._listeners = [create |-> <<>>, update |-> <<>>]],
          MapSids(e._listeners.create) \o MapSids(e._listeners.update))
        EXCEPT !.events = [name \in EventNames |-> <<>>]]
  ELSE IF isCreateOrUpdate(eventName)
  THEN [Provider_unsubscribe([e EXCEPT !._listeners[eventName] = <<>>],
                             MapSids(e._listeners[eventName]))
        EXCEPT !.events[eventName] = <<>>]
  ELSE [e EXCEPT !.events[eventName] = <<>>]

\* this.emit(ProviderEvents.StreamError, err)
emitStreamError(e, err) ==
  [e EXCEPT !.emitted = Append(@, [event |-> ProviderEvents.StreamError, args |-> <<err>>])]

\* an argument that was not passed is undefined
ArgAt(args, n) == IF n <= Len(args) THEN args[n] ELSE Undefined

\* an _onCreate that pushes an array as one chunk
Provider_onCreate_whole(e, args) ==
  LET err == ArgAt(args, 1)
      msg == ArgAt(args, 2)
  IN IF ~isNil(err) THEN emitStreamError(e, err)
     ELSE IF isNil(msg)
     THEN [e EXCEPT !.thrown = TypeError("Cannot destructure property 'object'")]
     ELSE IF isNil(prop("object", msg))
     THEN emitStreamError(e, Error(Word("msg.object is not set")))
     ELSE [e EXCEPT !.pushed = Append(@, prop("object", msg))]

\* Provider._onCreate(err, msg); `const { object } = msg` throws on nil
Provider_onCreate(e, args) ==
  LET err == ArgAt(args, 1)
      msg == ArgAt(args, 2)
  IN IF ~isNil(err) THEN emitStreamError(e, err)
     ELSE IF isNil(msg)
     THEN [e EXCEPT !.thrown = TypeError("Cannot destructure property 'object'")]
     ELSE LET object == prop("object", msg)
          IN IF isNil(object)
             THEN emitStreamError(e, Error(Word("msg.object is not set")))
             ELSE IF object.t = "array"
             THEN [e EXCEPT !.pushed = @ \o object.v]
             ELSE [e EXCEPT !.pushed = Append(@, object)]

\* EventEmitter's emit over a copy of the listeners: a wrapper removes
\* itself and calls its listener; what a listener throws ends the emit
RECURSIVE EmitTo(_, _, _, _)
EmitTo(e, eventName, listeners, args) ==
  IF listeners = <<>> \/ e.thrown # Undefined THEN e
  ELSE LET listener == Head(listeners)
           unwrapped == IF listener.wrap > 0
                        THEN Provider_removeListener(e, eventName, listener)
                        ELSE e
           called == IF unwrapped.thrown # Undefined THEN unwrapped
                     ELSE IF listener.fn = "_onCreate"
                     THEN Provider_onCreate(unwrapped, args)
                     ELSE [unwrapped EXCEPT
                             !.invoked = Append(@, [listener |-> listener.fn,
                                                    args |-> args])]
       IN EmitTo(called, eventName, Tail(listeners), args)

\* processEvent(emit): tryCatch(JSON.parse, identity), then emit(error) or
\* emit(null, parsed)
processEvent(e, eventName, text) ==
  LET parsed == JSONparse(text)
  IN IF isError(parsed)
     THEN EmitTo(e, eventName, e.events[eventName], <<parsed>>)
     ELSE EmitTo(e, eventName, e.events[eventName], <<Null, parsed>>)

\* what an operation starts from: nothing called, thrown or emitted yet
Fresh(e, op) ==
  [e EXCEPT !.op = op, !.calls = <<>>, !.thrown = Undefined,
            !.invoked = <<>>, !.pushed = <<>>, !.emitted = <<>>]

Registrations == {"on", "once", "prependListener", "prependOnceListener"}

\* the listener of the user; the Provider's own _onCreate is the other
\* listener of the model
UserListeners == {Listener("A")}

\* on, once, prependListener (which is on) and prependOnceListener (once)
Register(method, eventName, listener) ==
  /\ emitter.registrations < MaxRegistrations
  /\ LET e == Fresh([emitter EXCEPT !.registrations = @ + 1],
                    <<method, eventName, listener.fn>>)
     IN emitter' = IF method \in {"on", "prependListener"}
                   THEN Provider_on(provider, e, eventName, listener)
                   ELSE Provider_once(provider, e, eventName, listener)
  /\ UNCHANGED <<storeVars, calls, batch, provider, operation, db, stream>>

RemoveListener(eventName, listener) ==
  /\ emitter' = Provider_removeListener(
                  Fresh(emitter, <<"removeListener", eventName, listener.fn>>),
                  eventName, listener)
  /\ UNCHANGED <<storeVars, calls, batch, provider, operation, db, stream>>

RemoveAllListeners(eventName) ==
  /\ emitter' = Provider_removeAllListeners(
                  Fresh(emitter, <<"removeAllListeners", eventName>>), eventName)
  /\ UNCHANGED <<storeVars, calls, batch, provider, operation, db, stream>>

\* Provider._read(): the first call registers _onCreate for `create`
Read ==
  /\ emitter.registrations < MaxRegistrations
  /\ LET e == Fresh(emitter, <<"_read">>)
     IN emitter' =
          IF e._readableStreamInitialized THEN e
          ELSE [Provider_on(provider, [e EXCEPT !.registrations = @ + 1],
                            ProviderEvents.Create, Listener("_onCreate"))
                EXCEPT !._readableStreamInitialized = TRUE]
  /\ UNCHANGED <<storeVars, calls, batch, provider, operation, db, stream>>

\* the messages of the bus: a create of one object and of two, an object
\* without `object`, null, and text that is not JSON
EventTexts ==
  {JSONstringify(Obj(<<KV("object", Chunk(0)), KV("projection", streamProjection)>>)),
   JSONstringify(objOf("object", Arr(<<Chunk(1), Chunk(2)>>))),
   JSONstringify(Obj(<<KV("a", Num(1))>>)),
   JSONstringify(Null),
   Str(<<P("{")>>)}

\* the transport hands a message to the handler of a live subscription of
\* the event; the handlers of an event are all processEvent(emit) of it
EventDeliver(eventName, text) ==
  /\ {s \in emitter.subs : s.event = eventName} # {}
  /\ emitter' = processEvent(Fresh(emitter, <<"deliver", eventName, text>>),
                             eventName, text)
  /\ UNCHANGED <<storeVars, calls, batch, provider, operation, db, stream>>

\* the members of a set of numbers in increasing order
RECURSIVE Ascending(_)
Ascending(S) ==
  IF S = {} THEN <<>>
  ELSE LET least == CHOOSE x \in S : \A y \in S : x <= y
       IN <<least>> \o Ascending(S \ {least})

\* the bus hands a published message to every subscription whose subject is
\* the subject of the message (`base.>` stands for the subjects below base)
Receives(s, subject) ==
  \/ s.subject = subject
  \/ /\ s.subject[Len(s.subject)] = ">"
     /\ Len(subject) >= Len(s.subject)
     /\ SubSeq(subject, 1, Len(s.subject) - 1) = SubSeq(s.subject, 1, Len(s.subject) - 1)

\* the handlers of the subscriptions `ids` that are still live are called
\* one after another; what one throws goes to the transport
RECURSIVE PublishTo(_, _, _, _)
PublishTo(e, eventName, ids, text) ==
  IF ids = <<>> THEN e
  ELSE LET live == \E s \in e.subs : s.sid = Head(ids)
           handled == IF live
                      THEN processEvent([e EXCEPT !.thrown = Undefined], eventName, text)
                      ELSE e
           kept == IF e.thrown # Undefined
                   THEN [handled EXCEPT !.thrown = e.thrown]
                   ELSE handled
       IN PublishTo(kept, eventName, Tail(ids), text)

\* somebody publishes one message on the base subject of the group
EventPublish(eventName, text) ==
  LET base == provider._subjects[eventName][1]
      receivers == {s.sid : s \in {x \in emitter.subs : Receives(x, base)}}
  IN /\ receivers # {}
     /\ emitter' = PublishTo(Fresh(emitter, <<"publish", eventName, text>>),
                             eventName, Ascending(receivers), text)
     /\ UNCHANGED <<storeVars, calls, batch, provider, operation, db, stream>>

(***************************************************************************)
(* The other end: a Store whose Model is a collection of documents.        *)
(* A document is [id, a, deleted]: its _id, a field `a` and whether its    *)
(* metadata.deleted is set; its metadata always holds `created`.           *)
(***************************************************************************)
\* the operators of a condition on one field: $eq null, $ne null, $exists
operatorsMatch(ops, present) ==
  \A i \in 1..Len(ops.v) :
    CASE ops.v[i].k = Key("$eq") -> ops.v[i].v = Null /\ ~present
      [] ops.v[i].k = Key("$ne") -> ops.v[i].v = Null /\ present
      [] ops.v[i].k = Key("$exists") -> ops.v[i].v = Bool(present)
      [] OTHER -> FALSE

\* whether the document matches the conditions of a query
RECURSIVE matches(_, _)
matches(doc, conditions) ==
  \A i \in 1..Len(conditions.v) :
    LET k == conditions.v[i].k
        v == conditions.v[i].v
    IN CASE k = Key("$or") -> \E j \in 1..Len(v.v) : matches(doc, v.v[j])
         [] k = Key("_id") -> v = Num(doc.id)
         [] k = Key("a") -> v = Num(doc.a)
         [] k = Key("metadata") -> operatorsMatch(v, TRUE)
         [] k = Key(DELETED) -> operatorsMatch(v, doc.deleted)
         [] OTHER -> FALSE

Matching(docs, conditions) == SelectSeq(docs, LAMBDA d : matches(d, conditions))

\* model.count(conditions)
Model_count(docs, conditions) == Num(Len(Matching(docs, conditions)))

\* model.find(conditions, projection, options): the matching documents
\* after `skip`, `limit` of them at most when a limit is given
Model_find(docs, conditions, options) ==
  LET found == Matching(docs, conditions)
      skip == IF has("skip", options) THEN prop("skip", options).v ELSE 0
      last == IF has("limit", options) /\ prop("limit", options).v > 0
              THEN min(Len(found), skip + prop("limit", options).v)
              ELSE Len(found)
  IN Arr([i \in 1..(IF last > skip THEN last - skip ELSE 0) |-> Doc(found[skip + i].id)])

\* the documents model.update(conditions, object, options) changes: every
\* match with multi, the first without
Updated(docs, conditions, options) ==
  LET ids == {docs[i].id : i \in {j \in 1..Len(docs) : matches(docs[j], conditions)}}
  IN IF prop("multi", options) = Bool(TRUE) \/ ids = {} THEN ids
     ELSE {CHOOSE id \in ids : \A other \in ids : id <= other}

\* model.update: $currentDate on metadata.deleted marks the document as
\* deleted, a plain `a` sets the field
Model_update(docs, conditions, object, options) ==
  LET ids == Updated(docs, conditions, options)
      marks == has(DELETED, propOr(Obj(<<>>), "$currentDate", object))
  IN [i \in 1..Len(docs) |->
        IF docs[i].id \notin ids THEN docs[i]
        ELSE [docs[i] EXCEPT !.deleted = docs[i].deleted \/ marks,
                             !.a = IF has("a", object) THEN prop("a", object).v
                                   ELSE docs[i].a]]

\* the collection at the start: MaxDocs documents, none marked as deleted
InitialDocs == [i \in 1..MaxDocs |-> [id |-> i, a |-> i % 2, deleted |-> FALSE]]

\* the Store answers the request the operation waits on: its handler parses
\* the message, the Model runs the query on the collection, and the reply
\* it publishes reaches the callback of the request
RemoteReply ==
  /\ Awaiting(operation)
  /\ Active(operation).log = <<>>
  /\ LET r == operation.execs[Len(operation.execs)]
         group == r.subject[1]
         inv == Store_exec(group, r.call.sent[1].msg, Word("inbox"))
         args == inv.modelCalls[1].args
         docs == IF group = "update"
                 THEN Model_update(db.docs, args[1], args[2], args[3])
                 ELSE db.docs
         answer == CASE group = "count" -> Model_count(db.docs, args[1])
                     [] group = "find" -> Model_find(db.docs, args[1], args[3])
                     [] group = "update" ->
                          objOf("n", Num(Cardinality(Updated(db.docs, args[1], args[3]))))
         reply == Store_settle(inv, [kind |-> "resolve", v |-> answer]).published[1].msg
     IN /\ db' = [docs |-> docs,
                  marked |-> IF group = "update"
                             THEN {docs[i].id : i \in {j \in 1..Len(docs) :
                                      docs[j].deleted /\ ~db.docs[j].deleted}}
                             ELSE db.marked]
        /\ operation' =
             Provider_step(provider,
                           [operation EXCEPT !.execs[Len(operation.execs)].call =
                                                onReply(@, reply, FALSE)])
  /\ UNCHANGED <<storeVars, calls, batch, provider, stream, emitter>>

\* an operation other than create is called on the Provider
RemoteCall(c) ==
  /\ c.name # "create"
  /\ IF operation = NoOp THEN TRUE ELSE operation.future.state # "pending"
  /\ operation' = Provider_call(provider, c.name, c.args)
  /\ UNCHANGED <<storeVars, calls, batch, provider, db, stream, emitter>>

StoreInit ==
  /\ sids = <<>>
  /\ nextSid = 1
  /\ busSubs = {}
  /\ lifecycleCalls = 0
  /\ lastCall = [op |-> "new", threw |-> FALSE, calls |-> <<>>]
  /\ opened = FALSE
  /\ handlers = <<>>

Init ==
  /\ StoreInit
  /\ calls = <<>>
  /\ batch = NoBatch
  /\ provider = Provider(FALSE, DefaultBatchSize, FALSE)
  /\ operation = NoOp
  /\ db = [docs |-> InitialDocs, marked |-> {}]
  /\ stream = NoStream
  /\ emitter = NoEmitter

LifecycleNext ==
  \/ open
  \/ close

\* open() and close() calls alone
LifecycleSpec == Init /\ [][LifecycleNext]_vars

StoreNext ==
  \/ lifecycleCalls < MaxServingCalls /\ open
  \/ lifecycleCalls < MaxServingCalls /\ close
  \/ \E handler \in DOMAIN GroupOf, msg \in Payloads, replyTo \in ReplyTos :
       Deliver(handler, msg, replyTo)
  \/ \E h \in 1..MaxDeliveries, outcome \in ModelOutcomes : ModelSettle(h, outcome)

\* a Store that is opened and closed while it serves requests
StoreSpec == Init /\ [][StoreNext]_vars

ExecNext ==
  \/ \E mode \in ExecModes, input \in ExecInputs,
        syncReply \in ReplyTexts \cup {Undefined} :
       ExecCall(mode, input, syncReply)
  \/ \E c \in 1..MaxCalls, text \in ReplyTexts : Reply(c, text)
  \/ \E c \in 1..MaxCalls : TimerFire(c)

\* the Provider's executor against a transport that replies what and when
\* it likes, or never
ExecSpec == Init /\ [][ExecNext]_vars

ExecAgainNext ==
  \/ \E mode \in ExecModes, input \in ExecInputs,
        syncReply \in ReplyTexts \cup {Undefined} :
       calls = <<>> /\ ExecCall(mode, input, syncReply)
  \/ \E text \in ReplyTexts : Reply(1, text)
  \/ TimerFire(1)
  \/ \E text \in ReplyTexts : ReplyAgain(1, text)

\* one call of the executor against a transport that may also deliver the
\* replies of several Stores to the request
ExecAgainSpec == Init /\ [][ExecAgainNext]_vars

\* the event loop runs the callback of every timer that stays armed
ExecFairSpec == ExecSpec /\ \A c \in 1..MaxCalls : WF_vars(TimerFire(c))

BatchNext ==
  \/ \E batchSize \in 1..MaxBatchSize, options \in BatchOptions :
       BatchCall(batchSize, options)
  \/ \E n \in 0..MaxPageLen : BatchPage(n)
  \/ BatchFail

\* batchExec over a page function that returns what it likes
BatchSpec == Init /\ [][BatchNext]_vars

\* the pages a run is followed for: one more than a run of batches of one
\* item can take
MaxPages == MaxLimit + 1

BatchResolves ==
  /\ batch.state = "running"
  /\ Len(batch.pages) < MaxPages
  /\ \E n \in 0..MaxPageLen : BatchPage(n)

BatchAnyNext ==
  \/ \E batchSize \in 0..MaxBatchSize, options \in BatchOptions :
       BatchCall(batchSize, options)
  \/ BatchResolves

\* batchExec with any batchSize from 0, over a page function whose requests
\* all resolve
BatchAnySpec == Init /\ [][BatchAnyNext]_vars /\ WF_vars(BatchResolves)

\* a Provider built with or without metadata.deleted in its schema, with
\* or without noAckStream, and batches of MaxBatchSize
ProviderInit ==
  /\ StoreInit
  /\ calls = <<>>
  /\ batch = NoBatch
  /\ provider \in {Provider(hasMetadata, MaxBatchSize, noAckStream) :
                     hasMetadata \in BOOLEAN, noAckStream \in BOOLEAN}
  /\ operation = NoOp
  /\ db = [docs |-> InitialDocs, marked |-> {}]
  /\ stream = NoStream
  /\ emitter = NoEmitter

ProviderNext ==
  \/ \E c \in ProviderCalls : ProviderCall(c)
  \/ \E text \in ProviderReplies : ProviderReply(text)
  \/ ProviderTimeout

\* the public operations of a Provider against an arbitrary other end
ProviderSpec == ProviderInit /\ [][ProviderNext]_vars

RemoteInit ==
  /\ StoreInit
  /\ calls = <<>>
  /\ batch = NoBatch
  /\ provider = Provider(TRUE, MaxBatchSize, FALSE)
  /\ operation = NoOp
  /\ db = [docs |-> InitialDocs, marked |-> {}]
  /\ stream = NoStream
  /\ emitter = NoEmitter

RemoteNext ==
  \/ \E c \in ProviderCalls : RemoteCall(c)
  \/ RemoteReply

\* a Provider with metadata.deleted in its schema against a Store that
\* answers every request from its collection
RemoteSpec == RemoteInit /\ [][RemoteNext]_vars

\* a Provider with or without noAckStream that a source is piped to
StreamInit ==
  /\ StoreInit
  /\ calls = <<>>
  /\ batch = NoBatch
  /\ provider \in {Provider(FALSE, DefaultBatchSize, noAckStream) :
                     noAckStream \in BOOLEAN}
  /\ operation = NoOp
  /\ db = [docs |-> InitialDocs, marked |-> {}]
  /\ stream = NoStream
  /\ emitter = NoEmitter

StreamNext ==
  \/ StreamWrite
  \/ \E text \in StreamReplies : StreamReply(text)
  \/ StreamTimeout
  \/ StreamCallback

\* objects written to the Provider while its earlier writes complete
StreamSpec == StreamInit /\ [][StreamNext]_vars

\* text that is not JSON
NotJSON == Str(<<P("{")>>)

StreamAnyNext ==
  \/ StreamWrite
  \/ \E text \in StreamReplies \cup {NotJSON} : StreamReply(text)
  \/ StreamTimeout
  \/ StreamCallback

\* objects written to the Provider while the other end answers its requests
\* with anything, or not at all; timers fire and awaited futures are resumed
StreamFairSpec ==
  /\ StreamInit
  /\ [][StreamAnyNext]_vars
  /\ WF_vars(StreamTimeout)
  /\ WF_vars(StreamCallback)

\* a Provider built for a schema whose name is written in the given case
ProviderFor(name, hasMetadata) ==
  [Provider(hasMetadata, MaxBatchSize, FALSE) EXCEPT
     !._subjects = getSubjects(name, Prefixes, "")] @@ [_schema |-> name]

\* a Store for goodSchema and a Provider for the same schema, its name in
\* any letter case
WireInit ==
  /\ StoreInit
  /\ calls = <<>>
  /\ batch = NoBatch
  /\ provider \in {ProviderFor(name, hasMetadata) :
                     name \in SchemaNames, hasMetadata \in BOOLEAN}
  /\ operation = NoOp
  /\ db = [docs |-> InitialDocs, marked |-> {}]
  /\ stream = NoStream
  /\ emitter = NoEmitter

WireNext ==
  \/ lifecycleCalls < MaxServingCalls /\ open
  \/ lifecycleCalls < MaxServingCalls /\ close
  \/ \E c \in ProviderCalls : ProviderCall(c)
  \/ \E text \in ProviderReplies : ProviderReply(text)
  \/ ProviderTimeout

\* the operations of a Provider while a Store of the same schema is opened
\* and closed
WireSpec == WireInit /\ [][WireNext]_vars

EventInit ==
  /\ StoreInit
  /\ calls = <<>>
  /\ batch = NoBatch
  /\ provider = Provider(FALSE, DefaultBatchSize, FALSE)
  /\ operation = NoOp
  /\ db = [docs |-> InitialDocs, marked |-> {}]
  /\ stream = NoStream
  /\ emitter = NoEmitter

EventNext ==
  \/ \E method \in Registrations, eventName \in EventNames, listener \in UserListeners :
       Register(method, eventName, listener)
  \/ \E eventName \in EventNames, listener \in UserListeners :
       RemoveListener(eventName, listener)
  \/ \E eventName \in EventNames \cup {NoEventName} : RemoveAllListeners(eventName)
  \/ Read
  \/ \E eventName \in {ProviderEvents.Create, ProviderEvents.Update}, text \in EventTexts :
       EventDeliver(eventName, text)

\* listeners added to and removed from a Provider whose subscriptions the
\* transport delivers messages to
EventSpec == EventInit /\ [][EventNext]_vars

PublishNext ==
  \/ \E method \in Registrations, eventName \in EventNames, listener \in UserListeners :
       Register(method, eventName, listener)
  \/ \E eventName \in EventNames, listener \in UserListeners :
       RemoveListener(eventName, listener)
  \/ Read
  \/ \E eventName \in {ProviderEvents.Create, ProviderEvents.Update}, text \in EventTexts :
       EventPublish(eventName, text)

\* listeners added to and removed from a Provider while messages are
\* published on the base subjects of create and update
PublishSpec == EventInit /\ [][PublishNext]_vars

(***************************************************************************)
(* Properties of the Store's handlers (StoreSpec).                         *)
(***************************************************************************)
Invocations == {handlers[h] : h \in 1..Len(handlers)}

\* a string payload that parses as JSON, with a string reply subject
Served(i) == isString(i.msg) /\ ~isError(JSONparse(i.msg)) /\ isString(i.replyTo)

ResultText(v) == JSONstringify(Obj(<<KV("result", v)>>))
ErrorText(m) == JSONstringify(Obj(<<KV("error", Obj(<<KV("message", m)>>))>>))

Selects(projection, k) ==
  /\ projection.t = "object"
  /\ \E n \in 1..Len(projection.v) :
       projection.v[n].k = k /\ projection.v[n].v = Num(1)

Members(x) == IF x.t = "object" THEN {x.v[n] : n \in 1..Len(x.v)} ELSE {}

C7_AsStated ==
  \A i \in Invocations :
    \A n \in 1..Len(i.published) :
      /\ isString(i.published[n].msg)
      /\ LET envelope == JSONparse(i.published[n].msg)
         IN /\ envelope.t = "object"
            /\ has("result", envelope) # has("error", envelope)

\* C8 as stated: when the Model rejects with an error, the Store publishes
\* {error:{message}} to the reply subject and emits the group's error event
\* with the error.
C8_AsStated ==
  \A i \in Invocations :
    (i.settled.kind = "reject" /\ isError(i.settled.v)) =>
      /\ i.published = <<[subject |-> i.replyTo, msg |-> ErrorText(i.settled.v.message)]>>
      /\ i.emitted = <<[event |-> StoreEvents[i.group], args |-> <<i.settled.v>>]>>

\* the future of a Provider request that is answered with `text`
Answered(text) ==
  onReply(Provider_exec("request", FALSE, DefaultTimeout, Obj(<<>>), Undefined),
          text, FALSE).future

\* C9 as stated: an unparsable string payload with a reply subject emits the
\* group's error event once with the parse error, invokes no Model method
\* and publishes one JSON-encoded {error:{message}} envelope to the reply
\* subject, which rejects the requesting Provider's future with that message.
C9_AsStated ==
  \A i \in Invocations :
    (isString(i.msg) /\ isError(JSONparse(i.msg)) /\ isString(i.replyTo)) =>
      LET err == JSONparse(i.msg)
      IN /\ i.emitted = <<[event |-> StoreEvents[i.group], args |-> <<err>>]>>
         /\ i.modelCalls = <<>>
         /\ Len(i.published) = 1
         /\ i.published[1].subject = i.replyTo
         /\ i.published[1].msg = ErrorText(err.message)
         /\ Answered(i.published[1].msg) =
              [state |-> "rejected", value |-> Error(err.message)]

\* C10 as stated: a request without reply subject still has its Model
\* method invoked with the decoded arguments, and nothing is published.
C10_AsStated ==
  \A i \in Invocations :
    (isString(i.msg) /\ ~isError(JSONparse(i.msg)) /\ ~isString(i.replyTo)) =>
      /\ i.modelCalls = <<[method |-> i.group,
                           args |-> process(i.group, JSONparse(i.msg))]>>
      /\ i.published = <<>>

(***************************************************************************)
(* Properties of open() and close() (LifecycleSpec).                       *)
(***************************************************************************)
\* C5: open() succeeds exactly when the store is closed and close() exactly
\* when it is open; a call in the wrong state throws, calls neither
\* subscribe nor unsubscribe and leaves the recorded list unchanged.
C5_OpenCloseGuarded ==
  [][lifecycleCalls' # lifecycleCalls =>
       /\ lastCall'.op = "open" => (lastCall'.threw <=> opened)
       /\ lastCall'.op = "close" => (lastCall'.threw <=> ~opened)
       /\ lastCall'.threw =>
            /\ lastCall'.calls = <<>>
            /\ sids' = sids
            /\ busSubs' = busSubs]_vars

\* open() has succeeded again after a close(), and a call has thrown since
C5_Witness ==
  /\ lastCall.threw
  /\ lastCall.op = "open"
  /\ nextSid > 9

SubscribeOrder ==
  << [subject |-> <<"count", "schema">>, handler |-> "_onCount"],
     [subject |-> <<"count", "schema", ">">>, handler |-> "_onCount"],
     [subject |-> <<"create", "schema">>, handler |-> "_onCreate"],
     [subject |-> <<"create", "schema", ">">>, handler |-> "_onCreate"],
     [subject |-> <<"find", "schema">>, handler |-> "_onFind"],
     [subject |-> <<"find", "schema", ">">>, handler |-> "_onFind"],
     [subject |-> <<"update", "schema">>, handler |-> "_onUpdate"],
     [subject |-> <<"update", "schema", ">">>, handler |-> "_onUpdate"] >>

\* C6: open() subscribes count, create, find and update, base then
\* wildcard, each to its group's handler, and records the returned IDs in
\* that order; close() calls unsubscribe once for each recorded ID, in the
\* recorded order, and for no other.
C6_SubscribeOrder ==
  [][(lifecycleCalls' # lifecycleCalls /\ ~lastCall'.threw) =>
       LET made == lastCall'.calls
       IN IF lastCall'.op = "open"
          THEN /\ Len(made) = Len(SubscribeOrder)
               /\ \A n \in 1..Len(made) :
                    /\ made[n].fn = "subscribe"
                    /\ made[n].subject = SubscribeOrder[n].subject
                    /\ made[n].handler = SubscribeOrder[n].handler
               /\ sids' = [n \in 1..Len(made) |-> made[n].sid]
          ELSE /\ Len(made) = Len(sids)
               /\ \A n \in 1..Len(made) :
                    /\ made[n].fn = "unsubscribe"
                    /\ made[n].args[1] = sids[n]]_vars

\* a close() has unsubscribed what an open() recorded
C6_Witness ==
  /\ lastCall.op = "close"
  /\ ~lastCall.threw
  /\ Len(lastCall.calls) = 8

(***************************************************************************)
(* Properties of the Provider's executor (ExecSpec, ExecFairSpec).         *)
(***************************************************************************)
RequestCalls == {c \in 1..Len(calls) : ~calls[c].noAckStream}

\* the first thing that happened to the call is the delivery of `text`
AnsweredFirst(c, text) ==
  /\ calls[c].log # <<>>
  /\ calls[c].log[1].e = "reply"
  /\ calls[c].log[1].text = text

\* C2: for every query, a request answered with '{"result":v}' resolves to
\* v, and one answered with '{"error":{"message":m}}' rejects with an Error
\* whose message is m (the reply reaching the callback before the timeout).
C2_RoundTrip ==
  \A c \in RequestCalls :
    /\ \A v \in ReplyValues :
         AnsweredFirst(c, ResultText(v)) =>
           calls[c].future = [state |-> "resolved", value |-> v]
    /\ \A m \in ReplyMessages :
         AnsweredFirst(c, ErrorText(m)) =>
           calls[c].future =
             [state |-> "rejected",
              value |-> [t |-> "Error", name |-> "Error", message |-> m]]

\* a request has been rejected by an error envelope
C2_Witness ==
  \E c \in RequestCalls :
    /\ AnsweredFirst(c, ErrorText(Word("msg")))
    /\ calls[c].future.state = "rejected"
    /\ calls[c].query = Obj(<<KV("a", Num(1))>>)

HasReply(c) ==
  /\ c \in 1..Len(calls)
  /\ \E n \in 1..Len(calls[c].log) : calls[c].log[n].e = "reply"

TimedOut(c) ==
  /\ c \in 1..Len(calls)
  /\ calls[c].future =
       [state |-> "rejected",
        value |-> [t |-> "Error", name |-> "Error",
                   message |-> Str(<<W("query timeout after "), N(calls[c].timeout),
                                     W("ms")>>),
                   query |-> calls[c].query]]

\* C3: a request is sent on the transport exactly once, and if no reply is
\* ever delivered its future is eventually rejected with an error whose
\* message is "query timeout after {t}ms" and which carries the query.
C3_Timeout ==
  \A c \in 1..MaxCalls :
    /\ [](c \in RequestCalls =>
            /\ Len(calls[c].sent) = 1
            /\ calls[c].sent[1].msg = JSONstringify(calls[c].query))
    /\ (c \in RequestCalls) ~> (HasReply(c) \/ TimedOut(c))

\* a request that got no reply has timed out
C3_Witness ==
  \E c \in RequestCalls :
    /\ ~HasReply(c)
    /\ TimedOut(c)
    /\ calls[c].timeout = 10

\* C4 as stated: a reply that is not valid JSON, whenever the transport
\* delivers it before the timeout, rejects the future with a decode error.
C4_AsStated ==
  \A c \in RequestCalls :
    (/\ calls[c].log # <<>>
     /\ calls[c].log[1].e = "reply"
     /\ isError(JSONparse(calls[c].log[1].text))) =>
      /\ calls[c].future.state = "rejected"
      /\ calls[c].future.value.name = "SyntaxError"

(***************************************************************************)
(* Properties of batchExec (BatchSpec).                                    *)
(***************************************************************************)
\* no page is requested after the first page shorter than batchSize
StopsAtShortPage ==
  \A i \in 1..Len(batch.pages) :
    batch.pages[i] < batch.batchSize => Len(batch.requests) = i

\* C16 as stated: batchExec(f, batchSize, {limit}) returns at most limit
\* items, whatever f, and requests no page after the first short one.
C16_AsStated ==
  (batch.state = "resolved" /\ has("limit", batch.options)) =>
    /\ Len(batch.result) <= prop("limit", batch.options).v
    /\ StopsAtShortPage

\* C16 as amended: with a limit of 0 or none counting as batchSize, and a
\* page function that returns no more items than the page request's limit,
\* batchExec returns at most limit items, all the items of the pages in
\* order; whatever the page function, it requests page n at skip
\* batchSize * (n - 1) and no page after the first short one.
C16_BatchLimit ==
  batch.state # "idle" =>
    LET limit == IF has("limit", batch.options) /\ prop("limit", batch.options).v > 0
                 THEN prop("limit", batch.options).v
                 ELSE batch.batchSize
    IN /\ StopsAtShortPage
       /\ \A i \in 1..Len(batch.requests) :
            /\ prop("skip", batch.requests[i]) = Num(batch.batchSize * (i - 1))
            /\ prop("limit", batch.requests[i]) =
                 Num(min(limit - batch.batchSize * (i - 1), batch.batchSize))
       /\ (\A i \in 1..Len(batch.pages) :
             batch.pages[i] <= prop("limit", batch.requests[i]).v) =>
            /\ Len(batch.result) <= limit
            /\ batch.result = [i \in 1..Len(batch.result) |-> Num(i)]

\* batchSize 2, limit 5, pages of 2, 2 and 1 items: 5 items, 3 requests
C16_Witness ==
  /\ batch.state = "resolved"
  /\ batch.batchSize = 2
  /\ batch.options = Obj(<<KV("limit", Num(5))>>)
  /\ batch.pages = <<2, 2, 1>>
  /\ Len(batch.result) = 5
  /\ Len(batch.requests) = 3

(***************************************************************************)
(* Properties of the Provider's operations (ProviderSpec).                 *)
(***************************************************************************)
Called == operation # NoOp

\* the requests the operation has sent, and the query each one carries
Requests == IF Called THEN operation.execs ELSE <<>>
QueryOf(r) == JSONparse(r.call.sent[1].msg)

Base(group) == <<group, "schema">>

TombstoneFilter ==
  Arr(<<Obj(<<KV("metadata", Obj(<<KV("$eq", Null)>>))>>),
        Obj(<<KV("metadata.deleted", Obj(<<KV("$eq", Null)>>))>>),
        Obj(<<KV("metadata.deleted", Obj(<<KV("$exists", Bool(FALSE))>>))>>)>>)

\* C11 as stated: with metadata.deleted in the schema the conditions of
\* every request sent on the find, count and update subjects, follow-up
\* finds included, contain the default $or triple; without it none does.
C11_AsStated ==
  \A i \in 1..Len(Requests) :
    Requests[i].subject \in {Base("find"), Base("count"), Base("update")} =>
      (provider._hasMetadata <=>
         prop("$or", prop("conditions", QueryOf(Requests[i]))) = TombstoneFilter)

\* C12 as stated: the conditions find, count and delete dispatch for a
\* Provider with metadata hold every key of the caller's conditions with the
\* caller's value and still hold the default $or triple.
C12_AsStated ==
  (/\ Called
   /\ provider._hasMetadata
   /\ operation.name \in {"find", "count", "delete"}
   /\ Requests # <<>>) =>
    LET dispatched == prop("conditions", QueryOf(Requests[1]))
    IN /\ \A m \in Members(operation.args.conditions) :
            has(m.k[1].w, dispatched) /\ prop(m.k[1].w, dispatched) = m.v
       /\ prop("$or", dispatched) = TombstoneFilter

\* the arguments each operation requires
Required ==
  [count |-> {"conditions"}, countAll |-> {}, create |-> {"object", "projection"},
   delete |-> {"conditions", "projection"}, deleteById |-> {"id", "projection"},
   find |-> {"conditions", "projection"}, findAll |-> {"projection"},
   findById |-> {"id", "projection"}, updateById |-> {"id", "object", "projection"}]

ArgumentsSet ==
  /\ Called
  /\ \A a \in Required[operation.name] : ~isNil(operation.args[a])

\* C13: an operation called with a nil required argument, and delete and
\* deleteById on a Provider without metadata.deleted, returns a future
\* rejected with an Error and sends nothing on the transport.
C13_ArgumentErrors ==
  (/\ Called
   /\ \/ ~ArgumentsSet
      \/ operation.name \in {"delete", "deleteById"} /\ ~provider._hasMetadata) =>
    /\ operation.future.state = "rejected"
    /\ isError(operation.future.value)
    /\ Requests = <<>>

\* updateById with id and object but no projection has been rejected
C13_Witness ==
  /\ Called
  /\ operation.name = "updateById"
  /\ ~isNil(operation.args.id)
  /\ ~isNil(operation.args.object)
  /\ isNil(operation.args.projection)
  /\ operation.future.state = "rejected"
  /\ Requests = <<>>

\* the first thing that happened to request r is the reply {result: list of
\* n documents}
RepliedList(r, n) ==
  /\ r.call.log # <<>>
  /\ r.call.log[1].e = "reply"
  /\ r.call.log[1].text = ResultText(Arr([i \in 1..n |-> Doc(i)]))

\* C15: findById sends a single find request with limit 1 and resolves with
\* the element of a reply list of one element, and with null for a reply
\* list of any other length.
C15_FindById ==
  (ArgumentsSet /\ operation.name = "findById") =>
    /\ Len(Requests) = 1
    /\ Requests[1].subject = Base("find")
    /\ prop("options", QueryOf(Requests[1])) = Obj(<<KV("limit", Num(1))>>)
    /\ prop("_id", prop("conditions", QueryOf(Requests[1]))) = operation.args.id
    /\ \A n \in 0..MaxBatchSize :
         RepliedList(Requests[1], n) =>
           operation.future =
             [state |-> "resolved", value |-> IF n = 1 THEN Doc(1) ELSE Null]

\* findById has resolved null on a reply of more than one document
C15_Witness ==
  /\ ArgumentsSet
  /\ operation.name = "findById"
  /\ Requests # <<>>
  /\ \E n \in 2..MaxBatchSize : RepliedList(Requests[1], n)
  /\ operation.future = [state |-> "resolved", value |-> Null]

\* C20 as stated: whatever noAckStream, create(object, projection) sends a
\* request with a reply callback on the create base subject, and its future
\* settles only on the reply or on the timeout.
C20_AsStated ==
  (ArgumentsSet /\ operation.name = "create") =>
    /\ Len(Requests) = 1
    /\ Requests[1].subject = Base("create")
    /\ Requests[1].call.sent[1].fn = "request"
    /\ Requests[1].call.sent[1].callback
    /\ operation.future.state # "pending" => Requests[1].call.log # <<>>


(***************************************************************************)
(* Properties of the Provider against a Store and its collection           *)
(* (RemoteSpec).                                                           *)
(***************************************************************************)
Resolved == Called /\ operation.future.state = "resolved"

\* the documents of the collection with these ids, as a find returns them
Entities(ids) ==
  LET kept == SelectSeq(db.docs, LAMBDA d : d.id \in ids)
  IN Arr([i \in 1..Len(kept) |-> Doc(kept[i].id)])

\* C14 as stated: delete(conditions, projection) resolves with exactly the
\* entities that the update of this call marked as deleted.
C14_AsStated ==
  (Resolved /\ operation.name = "delete") =>
    operation.future.value = Entities(db.marked)

\* C17 as stated: find and findAll called without options.limit resolve
\* with all the entities that match, however many more than batchSize.
C17_AsStated ==
  (Resolved /\ operation.name \in {"find", "findAll"}
            /\ operation.args.options = Undefined) =>
    LET conditions == IF operation.name = "find" THEN operation.args.conditions
                      ELSE Obj(<<>>)
    IN operation.future.value =
         Entities({d.id : d \in {db.docs[i] : i \in {j \in 1..Len(db.docs) :
                     matches(db.docs[j], mergeConditions(provider, conditions))}}})


(***************************************************************************)
(* Properties of the executor without acknowledgement (ExecSpec).          *)
(***************************************************************************)
NoAckCalls == {c \in 1..Len(calls) : calls[c].noAckStream}

\* C18: without acknowledgement the executor sends the serialized query
\* exactly once, with no reply callback, and its future is resolved as soon
\* as the send returns; no timer is set and no reply is handled, so the
\* future is never rejected by a timeout or by a remote error.
C18_NoAck ==
  \A c \in NoAckCalls :
    /\ Len(calls[c].sent) = 1
    /\ calls[c].sent[1].msg = JSONstringify(calls[c].query)
    /\ ~calls[c].sent[1].callback
    /\ calls[c].timers = 0
    /\ calls[c].timer = "none"
    /\ calls[c].log = <<>>
    /\ calls[c].thrown = <<>>
    /\ calls[c].future = [state |-> "resolved", value |-> Undefined]

\* a query has been published without acknowledgement while a request made
\* before it was left to time out
C18_Witness ==
  /\ Len(calls) = 2
  /\ calls[1].future.state = "rejected"
  /\ calls[2].noAckStream
  /\ calls[2].sent[1].fn = "publish"
  /\ calls[2].future.state = "resolved"


(***************************************************************************)
(* Properties of the Provider as a Writable (StreamSpec).                  *)
(***************************************************************************)
RECURSIVE ChunksOf(_)
ChunksOf(batches) ==
  IF batches = <<>> THEN <<>> ELSE Head(batches).chunks \o ChunksOf(Tail(batches))

\* what is expected on the wire for a batch: its only chunk for a write,
\* the array of its chunks for a writev, with the projection of the id
PublishOf(b) ==
  [fn |-> "publish",
   msg |-> JSONstringify(Obj(<<KV("object", IF b.v THEN Arr(b.chunks) ELSE b.chunks[1]),
                               KV("projection", Obj(<<KV("id", Num(1))>>))>>)),
   callback |-> FALSE]

\* every chunk was written before the callback of the first write
WrittenAtOnce ==
  /\ Len(stream.written) = MaxChunks
  /\ \A i \in 1..MaxChunks : stream.written[i].callbacks = 0

\* C19: with noAckStream every batch the stream hands over, a writev of
\* several chunks included, is one publish on the base subject of create
\* that carries the chunks of the batch in the order they were written and
\* the projection {id: 1}, and nothing is sent by request; MaxChunks objects
\* written at once are two publishes, the first chunk and then the array of
\* the others.
C19_StreamPublish ==
  provider.noAckStream =>
    /\ Len(stream.sends) = Len(stream.batches)
    /\ \A i \in 1..Len(stream.sends) :
         /\ stream.sends[i].subject = <<Prefixes.create, toLowerCase(goodSchema.name)>>
         /\ stream.sends[i].call.sent = <<PublishOf(stream.batches[i])>>
         /\ stream.batches[i].v <=> Len(stream.batches[i].chunks) > 1
    /\ ChunksOf(stream.batches) \o [i \in 1..Len(stream.buffered) |-> stream.buffered[i].chunk]
         = [i \in 1..Len(stream.written) |-> Chunk(i - 1)]
    /\ WrittenAtOnce /\ stream.callbacks >= 1 =>
         stream.batches = <<[v |-> FALSE, chunks |-> <<Chunk(0)>>],
                            [v |-> TRUE, chunks |-> [i \in 1..MaxChunks - 1 |-> Chunk(i)]]>>

\* MaxChunks objects written at once to a Provider with noAckStream, and
\* both writes have completed
C19_Witness ==
  /\ provider.noAckStream
  /\ WrittenAtOnce
  /\ ~stream.writing
  /\ stream.callbacks = 2
  /\ Len(stream.sends) = 2
  /\ stream.batches[2].v


(***************************************************************************)
(* Properties of the options the Store hands to Model.update (StoreSpec).  *)
(***************************************************************************)
\* the Model.update invocations made so far: [h, i] is call i of handler h
UpdateCalls ==
  {c \in (1..Len(handlers)) \X (1..MaxDeliveries) :
     /\ c[2] <= Len(handlers[c[1]].modelCalls)
     /\ handlers[c[1]].modelCalls[c[2]].method = "update"}

OptionsOf(c) == handlers[c[1]].modelCalls[c[2]].args[3]

\* C28: the options of every Model.update call are the two members select,
\* which is the projection of the request, and multi, which is true,
\* whatever else the request carries (its own options included).
C28_UpdateOptions ==
  \A c \in UpdateCalls :
    /\ OptionsOf(c).t = "object"
    /\ {OptionsOf(c).v[i].k : i \in 1..Len(OptionsOf(c).v)} = {Key("select"), Key("multi")}
    /\ Len(OptionsOf(c).v) = 2
    /\ prop("multi", OptionsOf(c)) = Bool(TRUE)
    /\ prop("select", OptionsOf(c)) = prop("projection", JSONparse(handlers[c[1]].msg))

\* an update request whose options ask for multi: false has reached the Model
C28_Witness ==
  \E c \in UpdateCalls :
    /\ prop("multi", prop("options", JSONparse(handlers[c[1]].msg))) = Bool(FALSE)
    /\ prop("multi", OptionsOf(c)) = Bool(TRUE)


(***************************************************************************)
(* Properties of the subjects the Provider and the Store share (WireSpec). *)
(***************************************************************************)
Suffixes == {"", "x"}

\* the group whose base subject request i of an operation is sent on
GroupSent(name, i) ==
  CASE name \in {"count", "countAll"} -> "count"
    [] name = "create" -> "create"
    [] name \in {"delete", "deleteById", "updateById"} ->
         IF i = 1 THEN "update" ELSE "find"
    [] OTHER -> "find"

\* C29: for a schema name in any letter case getSubjects gives the same four
\* groups of two subjects, {prefix}.{lowercased name}[.suffix] and that
\* followed by `>`; the Provider holds the subjects the Store holds, and
\* every request of an operation goes to the base subject on which the open
\* Store has subscribed the handler of that operation.
C29_SameSubjects ==
  /\ \A name \in SchemaNames, suffix \in Suffixes :
       LET subjects == getSubjects(name, Prefixes, suffix)
           tail == IF suffix = "" THEN <<>> ELSE <<suffix>>
       IN /\ DOMAIN subjects = {"count", "create", "find", "update"}
          /\ \A g \in DOMAIN subjects :
               subjects[g] = << <<Prefixes[g], "schema">> \o tail,
                                <<Prefixes[g], "schema">> \o tail \o <<">">> >>
  /\ provider._subjects = storeSubjects
  /\ operation # NoOp /\ sids # <<>> =>
       \A i \in 1..Len(operation.execs) :
         \E b \in busSubs :
           /\ b.handler = HandlerOf[GroupSent(operation.name, i)]
           /\ b.subject = operation.execs[i].subject
           /\ b.subject = storeSubjects[GroupSent(operation.name, i)][1]

\* a Provider whose schema name is in capitals has sent the update and the
\* find of updateById while the Store was open
C29_Witness ==
  /\ provider._schema = "SCHEMA"
  /\ sids # <<>>
  /\ operation # NoOp
  /\ operation.name = "updateById"
  /\ Len(operation.execs) = 2


(***************************************************************************)
(* Properties of the executor's timer and late replies (ExecAgainSpec).    *)
(***************************************************************************)
\* C30: the future of a request settles at most once; the request has one
\* timer, which can fire only before any reply has been processed, so after
\* a reply the timeout never rejects the future; and once the timeout has
\* rejected it, later and repeated replies leave it rejected as it is.
C30_SettlesOnce ==
  /\ [](\A c \in RequestCalls :
          /\ calls[c].timers = 1
          /\ \A n \in 1..Len(calls[c].log) : calls[c].log[n].e = "timeout" => n = 1
          /\ HasReply(c) => calls[c].timer # "armed"
          /\ (calls[c].log # <<>> /\ calls[c].log[1].e = "timeout") => TimedOut(c)
          /\ (calls[c].log # <<>> /\ calls[c].log[1].e = "reply") => ~TimedOut(c))
  /\ [][\A c \in RequestCalls :
          calls[c].future.state # "pending" => calls'[c].future = calls[c].future]_vars

\* a request that timed out has since been handed two replies
C30_Witness ==
  \E c \in RequestCalls :
    /\ Len(calls[c].log) = 3
    /\ calls[c].log[1].e = "timeout"
    /\ calls[c].log[2].e = "reply"
    /\ calls[c].log[3].e = "reply"
    /\ calls[c].log[2].text = ResultText(Num(7))
    /\ TimedOut(c)


(***************************************************************************)
(* Properties of the Provider's listeners and of its readable side         *)
(* (EventSpec).  emitter'.op tells the call a step has made.               *)
(***************************************************************************)
Registry == emitter._listeners

\* the IDs the transport calls of the step were made with or returned
SidsOf(made) ==
  [i \in 1..Len(made) |-> IF made[i].fn = "subscribe" THEN made[i].sid ELSE made[i].args[1]]

\* the listeners EventEmitter holds for the event that removeListener(event,
\* listener) would take out
RegisteredAt(eventName, listener) ==
  {i \in 1..Len(emitter.events[eventName]) :
     Removes(emitter.events[eventName][i], listener)}

\* the live subscriptions of an event, and those made for a listener
LiveSids(eventNames) == {s.sid : s \in {x \in emitter.subs : x.event \in eventNames}}
LiveSidsFor(eventName, fn) ==
  {s.sid : s \in {x \in emitter.subs : x.event = eventName /\ x.for = fn}}

\* C24 as stated: a call of on, once, prependListener or prependOnceListener
\* for create or update makes one subscribe call per subject of the group
\* and records the IDs of those under the listener; for another event it
\* makes no transport call and leaves the registry as it is.
C24_AsStated ==
  [][\A method \in Registrations, eventName \in EventNames, listener \in UserListeners :
       emitter'.op = <<method, eventName, listener.fn>> =>
         IF isCreateOrUpdate(eventName)
         THEN LET subjects == provider._subjects[eventName]
                  made == emitter'.calls
              IN /\ Len(made) = Len(subjects)
                 /\ \A i \in 1..Len(made) :
                      made[i].fn = "subscribe" /\ made[i].args = <<subjects[i]>>
                 /\ MapHas(emitter'._listeners[eventName], listener)
                 /\ MapGet(emitter'._listeners[eventName], listener) = SidsOf(made)
         ELSE /\ emitter'.calls = <<>>
              /\ emitter'._listeners = Registry]_vars

\* what processEvent is to hand the listeners for a message
ExpectedArgs(text) ==
  IF isError(JSONparse(text)) THEN <<JSONparse(text), Undefined>>
  ELSE <<Null, JSONparse(text)>>

\* C25 as stated: for a message delivered on a subscription of create or
\* update every listener the Provider holds for the event is invoked with
\* (null, parsed) when the message is JSON and (error, undefined) when not.
C25_AsStated ==
  [][\A eventName \in {"create", "update"}, text \in EventTexts :
       emitter'.op = <<"deliver", eventName, text>> =>
         LET held == SelectSeq(emitter.events[eventName],
                               LAMBDA listener : listener.fn # "_onCreate")
             invoked == emitter'.invoked
         IN /\ Len(invoked) = Len(held)
            /\ \A i \in 1..Len(invoked) :
                 /\ invoked[i].listener = held[i].fn
                 /\ <<ArgAt(invoked[i].args, 1), ArgAt(invoked[i].args, 2)>>
                      = ExpectedArgs(text)]_vars

\* C26 as stated: removeListener for create or update unsubscribes the IDs of
\* the listener's registration and no others; removeAllListeners(event)
\* those of the event, in the order they were allocated, and nothing of the
\* other event; removeAllListeners() those of both events; a removal for
\* another event makes no transport call.
C26_AsStated ==
  [][/\ \A eventName \in {"create", "update"}, listener \in UserListeners :
          (/\ emitter'.op = <<"removeListener", eventName, listener.fn>>
           /\ Cardinality(RegisteredAt(eventName, listener)) = 1) =>
            /\ emitter'.thrown = Undefined
            /\ \A i \in 1..Len(emitter'.calls) : emitter'.calls[i].fn = "unsubscribe"
            /\ {SidsOf(emitter'.calls)[i] : i \in 1..Len(emitter'.calls)}
                 = LiveSidsFor(eventName, listener.fn)
     /\ \A eventName \in {"create", "update"} :
          emitter'.op = <<"removeAllListeners", eventName>> =>
            /\ SidsOf(emitter'.calls) = Ascending(LiveSids({eventName}))
            /\ \A other \in {"create", "update"} \ {eventName} :
                 emitter'._listeners[other] = Registry[other]
     /\ emitter'.op = <<"removeAllListeners", NoEventName>> =>
          {SidsOf(emitter'.calls)[i] : i \in 1..Len(emitter'.calls)}
            = LiveSids({"create", "update"})
     /\ (emitter'.op[1] \in {"removeListener", "removeAllListeners"}
         /\ emitter'.op[2] = "misc") => emitter'.calls = <<>>]_vars

\* C27 as stated: removeListener for any event and a listener that is not
\* registered returns without an error, makes no transport call and leaves
\* the registry as it is.
C27_AsStated ==
  [][\A eventName \in EventNames, listener \in UserListeners :
       (/\ emitter'.op = <<"removeListener", eventName, listener.fn>>
        /\ RegisteredAt(eventName, listener) = {}) =>
         /\ emitter'.thrown = Undefined
         /\ emitter'.calls = <<>>
         /\ emitter'._listeners = Registry]_vars

\* the readable side is listening: _read has registered _onCreate
Reading == \E i \in 1..Len(emitter.events.create) : emitter.events.create[i].fn = "_onCreate"

Delivered(text) == emitter.op = <<"deliver", "create", text>>

\* the message has an `object` that is not nil
HasObject(text) ==
  /\ ~isError(JSONparse(text))
  /\ ~isNil(JSONparse(text))
  /\ ~isNil(prop("object", JSONparse(text)))

\* C21 as stated, the readable side: a create message that cannot be decoded
\* or that has no `object` is reported by one stream-error event, and
\* nothing is thrown out of the handler.
C21_AsStated ==
  \A text \in EventTexts :
    (Reading /\ Delivered(text) /\ ~HasObject(text)) =>
      /\ emitter.thrown = Undefined
      /\ Len(emitter.emitted) = 1
      /\ emitter.emitted[1].event = "stream-error"
      /\ emitter.pushed = <<>>

\* C23: for a create event delivered to the readable side whose message has
\* an `object`, the elements of an array are pushed one by one in their
\* order, and anything else is pushed once, as it is; no error is reported.
C23_Pushed ==
  \A text \in EventTexts :
    (Reading /\ Delivered(text) /\ HasObject(text)) =>
      LET object == prop("object", JSONparse(text))
      IN /\ emitter.pushed = IF object.t = "array" THEN object.v ELSE <<object>>
         /\ emitter.emitted = <<>>
         /\ emitter.thrown = Undefined

\* the two objects of a create message have been pushed, in their order
C23_Witness ==
  /\ Reading
  /\ emitter.op[1] = "deliver"
  /\ emitter.pushed = <<Chunk(1), Chunk(2)>>


(***************************************************************************)
(* Properties of the errors of the writable side (StreamSpec).             *)
(***************************************************************************)
\* the writes whose callback has been invoked
Completed == 1..stream.callbacks

Failed(i) == stream.sends[i].call.future.state = "rejected"

RECURSIVE Sum(_, _)
Sum(f, S) ==
  IF S = {} THEN 0 ELSE LET x == CHOOSE y \in S : TRUE IN f[x] + Sum(f, S \ {x})

C32_RecordedSubscriptions ==
  /\ sids = Ascending({b.sid : b \in busSubs})
  /\ Cardinality(busSubs) = Len(sids)
  /\ (sids = <<>>) <=> ~opened

\* the Store has been opened, closed and opened again: its list holds the
\* eight subscriptions of the second open() and none of the first
C32_Witness ==
  /\ opened
  /\ lastCall.op = "open" /\ ~lastCall.threw
  /\ Len(sids) = 8
  /\ sids[1] = 9

(***************************************************************************)
(* Operations of two requests: delete, deleteById and updateById.          *)
(***************************************************************************)
TwoPhase ==
  /\ Called
  /\ operation.name \in {"delete", "deleteById", "updateById"}
  /\ Requests # <<>>

\* what the first thing that happened to request r makes of its future
AnsweredWithResult(r) ==
  /\ r.call.log # <<>>
  /\ r.call.log[1].e = "reply"
  /\ ~isError(JSONparse(r.call.log[1].text))
  /\ isNil(prop("error", JSONparse(r.call.log[1].text)))

AnsweredWithError(r) ==
  /\ r.call.log # <<>>
  /\ r.call.log[1].e = "reply"
  /\ ~isError(JSONparse(r.call.log[1].text))
  /\ ~isNil(prop("error", JSONparse(r.call.log[1].text)))

RequestTimedOut(r) ==
  /\ r.call.log # <<>>
  /\ r.call.log[1].e = "timeout"

\* C31: delete and updateById are two-phase: the update request is sent
\* first and the follow-up find request is sent only after the update
\* request has been answered with a result; if the update is answered with
\* an error envelope or times out, no find request is ever sent and the
\* operation's future rejects with that error.
C31_TwoPhase ==
  TwoPhase =>
    LET update == Requests[1]
    IN /\ update.subject = Base("update")
       /\ \A i \in 2..Len(Requests) : Requests[i].subject = Base("find")
       /\ Len(Requests) > 1 =>
            /\ AnsweredWithResult(update)
            /\ update.call.future.state = "resolved"
       /\ AnsweredWithError(update) =>
            /\ Len(Requests) = 1
            /\ operation.future =
                 [state |-> "rejected",
                  value |-> Error(prop("message",
                                       prop("error",
                                            JSONparse(update.call.log[1].text))))]
       /\ RequestTimedOut(update) =>
            /\ Len(Requests) = 1
            /\ operation.future =
                 [state |-> "rejected",
                  value |-> ProviderError(TimeoutMessage(update.call.timeout),
                                          update.call.query)]

\* a delete whose update was answered with a result has sent its find, and
\* the find has been answered
C31_Witness ==
  /\ TwoPhase
  /\ operation.name = "delete"
  /\ Len(Requests) = 2
  /\ AnsweredWithResult(Requests[1])
  /\ Requests[2].subject = Base("find")
  /\ operation.future.state = "resolved"

(***************************************************************************)
(* The subscriptions of the Provider against its listener registry.        *)
(***************************************************************************)
\* the subscription IDs the registry holds under some listener
Recorded ==
  {Registry[eventName][i].sids[n] :
     <<eventName, i, n>> \in
       {t \in {"create", "update"} \X (1..(2 * MaxRegistrations + 2)) \X (1..2) :
          /\ t[2] <= Len(Registry[t[1]])
          /\ t[3] <= Len(Registry[t[1]][t[2]].sids)}}

\* C33 as stated: in every state reachable by on / once / prependListener /
\* prependOnceListener / removeListener / removeAllListeners calls and
\* event deliveries, every subscription the Provider has created and not
\* yet unsubscribed is recorded in the listener registry under some
\* listener, and after removeAllListeners() the Provider holds no live bus
\* subscription.
C33_AsStated ==
  /\ LiveSids({"create", "update"}) \subseteq Recorded
  /\ emitter.op = <<"removeAllListeners", NoEventName>> => emitter.subs = {}

(***************************************************************************)
(* Messages published on a base subject (PublishSpec).                     *)
(***************************************************************************)
\* how often fn is among the listeners, and among the invocations
TimesHeld(listeners, fn) ==
  Cardinality({i \in 1..Len(listeners) : listeners[i].fn = fn})
TimesInvoked(invoked, fn) ==
  Cardinality({i \in 1..Len(invoked) : invoked[i].listener = fn})

\* the objects a create message carries
ObjectsOf(text) ==
  LET object == prop("object", JSONparse(text))
  IN IF object.t = "array" THEN object.v ELSE <<object>>

\* C34 as stated: with k >= 1 listeners registered for create (or update), a
\* single message published on the base subject of the group causes each
\* registered listener to be invoked exactly once and, when the readable
\* side is active, each created object to be pushed to the stream exactly
\* once.
C34_AsStated ==
  [][\A eventName \in {"create", "update"}, text \in EventTexts :
       (/\ emitter'.op = <<"publish", eventName, text>>
        /\ emitter.events[eventName] # <<>>) =>
         /\ \A listener \in UserListeners :
              TimesInvoked(emitter'.invoked, listener.fn)
                = TimesHeld(emitter.events[eventName], listener.fn)
         /\ (eventName = "create" /\ Reading /\ HasObject(text)) =>
              emitter'.pushed = ObjectsOf(text)]_vars

(***************************************************************************)
(* The page requests of batchExec, one after another (BatchSpec).          *)
(***************************************************************************)
\* the limit batchExec works with: options.limit || batchSize
\* (AbsentLimit: what an options object without a limit counts as)
LimitOf(b, absent) ==
  IF has("limit", b.options) /\ prop("limit", b.options) \notin absent
  THEN prop("limit", b.options).v
  ELSE b.batchSize

\* request i (from 1) carries the caller's options, with limit
\* min(limit - (i - 1) * batchSize, batchSize) and skip (i - 1) * batchSize
CarriesOptions(b, i, limit) ==
  LET request == b.requests[i]
  IN /\ prop("limit", request) = Num(min(limit - (i - 1) * b.batchSize, b.batchSize))
     /\ prop("skip", request) = Num((i - 1) * b.batchSize)
     /\ \A m \in Members(b.options) :
          m.k \notin {Key("limit"), Key("skip")} =>
            \E r \in Members(request) : r = m
     /\ \A r \in Members(request) :
          r.k \in {Key("limit"), Key("skip")} \/ r \in Members(b.options)

\* page i + 1 is requested only after page i has resolved, and the result
\* is the pages received so far, in the order they were requested
OneAfterAnother(b) ==
  /\ Len(b.requests) <= Len(b.pages) + 1
  /\ b.state = "running" => Len(b.requests) = Len(b.pages) + 1
  /\ b.result = [i \in 1..Sum(b.pages, 1..Len(b.pages)) |-> Num(i)]

\* C35 as stated: the i-th request carries the caller's options with limit
\* min(limit - i * batchSize, batchSize) and skip i * batchSize, page i + 1
\* is requested only after page i has resolved, the result is the
\* concatenation of the pages in request order, and limit is batchSize when
\* options.limit is absent.
C35_AsStated ==
  batch.state # "idle" =>
    /\ \A i \in 1..Len(batch.requests) : CarriesOptions(batch, i, LimitOf(batch, {}))
    /\ OneAfterAnother(batch)

\* C35 as amended: as stated, limit being batchSize when options.limit is
\* absent or 0.
C35_PageRequests ==
  batch.state # "idle" =>
    /\ \A i \in 1..Len(batch.requests) :
         CarriesOptions(batch, i, LimitOf(batch, {Num(0)}))
    /\ OneAfterAnother(batch)

\* a run with a `sort` and a `skip` of the caller among its options has
\* resolved after two page requests
C35_Witness ==
  /\ batch.state = "resolved"
  /\ has("sort", batch.options)
  /\ has("skip", batch.options)
  /\ Len(batch.requests) = 2
  /\ Len(batch.pages) = 2
  /\ batch.pages[2] > 0

(***************************************************************************)
(* Termination of batchExec (BatchAnySpec).                                *)
(***************************************************************************)
\* ceil(a / b) for b >= 1
Ceil(a, b) == (a + b - 1) \div b

\* C36 as stated: for all non-negative batchSize and limit and every page
\* function whose requests all resolve, batchExec terminates; when
\* batchSize >= 1 it issues at most ceil(limit / batchSize) page requests.
C36_AsStated ==
  /\ (batch.state = "running") ~> (batch.state = "resolved")
  /\ []((batch.state # "idle" /\ batch.batchSize >= 1) =>
          Len(batch.requests) <= Ceil(LimitOf(batch, {}), batch.batchSize))

(***************************************************************************)
(* The order of the writable side's create requests (StreamSpec).          *)
(***************************************************************************)
\* the create requests of the stream that have not settled
InFlight == {i \in 1..Len(stream.sends) : stream.sends[i].call.future.state = "pending"}

\* C37: with acknowledgement the create requests are issued in the order
\* the chunks were written, and the request for a chunk or a batch is sent
\* only after the create of the preceding chunk or batch has settled, so at
\* most one create request of the stream is in flight at any time.
C37_OneInFlight ==
  ~provider.noAckStream =>
    /\ Len(stream.sends) = Len(stream.batches)
    /\ \A i \in 1..Len(stream.sends) :
         /\ stream.sends[i].call.sent[1].fn = "request"
         /\ prop("object", stream.sends[i].call.query) =
              IF stream.batches[i].v THEN Arr(stream.batches[i].chunks)
              ELSE stream.batches[i].chunks[1]
    /\ ChunksOf(stream.batches) \o [i \in 1..Len(stream.buffered) |-> stream.buffered[i].chunk]
         = [i \in 1..Len(stream.written) |-> Chunk(i - 1)]
    /\ \A i \in 1..Len(stream.sends) - 1 : i \notin InFlight
    /\ Cardinality(InFlight) <= 1

\* the create of the first chunk has settled and the create of the chunks
\* written in the meantime is in flight, with one more chunk waiting
C37_Witness ==
  /\ ~provider.noAckStream
  /\ Len(stream.sends) = 2
  /\ stream.batches[2].v
  /\ InFlight = {2}
  /\ stream.buffered # <<>>

(***************************************************************************)
(* Progress of the writable side (StreamFairSpec).                         *)
(***************************************************************************)
\* the write callback of the i-th chunk written has been invoked
CallbackInvoked(i) ==
  \E j \in 1..stream.callbacks :
    \E n \in 1..Len(stream.batches[j].chunks) : stream.batches[j].chunks[n] = Chunk(i - 1)

\* C38 as stated: with acknowledgement every chunk written eventually has
\* its write callback invoked, whatever the transport delivers as a reply,
\* whenever it delivers it, or if it never replies; with noAckStream the
\* callback is invoked as soon as publish returns, no reply or timer awaited.
C38_AsStated ==
  /\ \A i \in 1..MaxChunks : (Len(stream.written) >= i) ~> CallbackInvoked(i)
  /\ []((provider.noAckStream /\ stream.writing) =>
          /\ Writing(stream).future.state = "resolved"
          /\ Writing(stream).timer = "none")

(***************************************************************************)
(* The object updateById sends (ProviderSpec).                             *)
(***************************************************************************)
\* C39 as stated: for a Provider with metadata the object sent in the update
\* request of updateById contains every key of the caller's object with the
\* caller's value and additionally $currentDate['metadata.updated'] = true;
\* for a Provider without metadata the object is sent unchanged.
C39_AsStated ==
  (ArgumentsSet /\ operation.name = "updateById" /\ Requests # <<>>) =>
    LET sent == prop("object", QueryOf(Requests[1]))
    IN IF provider._hasMetadata
       THEN /\ \A m \in Members(operation.args.object) :
                 has(m.k[1].w, sent) /\ prop(m.k[1].w, sent) = m.v
            /\ prop(UPDATED, prop("$currentDate", sent)) = Bool(TRUE)
       ELSE sent = operation.args.object

(***************************************************************************)
(* The arguments of transport.unsubscribe (LifecycleSpec, EventSpec).      *)
(***************************************************************************)
\* the unsubscribe calls of the Store's last close() and of the Provider's
\* last removeListener or removeAllListeners
Unsubscribes ==
  {lastCall.calls[i] : i \in {n \in 1..Len(lastCall.calls) :
                                lastCall.calls[n].fn = "unsubscribe"}}
  \cup {emitter.calls[i] : i \in {n \in 1..Len(emitter.calls) :
                                    emitter.calls[n].fn = "unsubscribe"}}

\* C40 as stated: every call that the Store (in close) or the Provider (in
\* removeListener and removeAllListeners) makes to transport.unsubscribe
\* passes the subscription ID as its only argument.
C40_AsStated ==
  \A call \in Unsubscribes : Len(call.args) = 1
====
